---------------------------- MODULE Spec2Model ----------------------------
(***************************************************************************)
(* Model of the production-matrix back end:                                *)
(*   - MatrixBuilder.group_specs_by_creative  (services/matrix_builder.py) *)
(*   - generate_production_plan / get_batch / update_asset_status          *)
(*     called one after another and concurrently                           *)
(*                                          (services/matrix_generator.py) *)
(*   - validate_feed                          (services/feed_validator.py) *)
(*   - generate_platform_export             (services/platform_export.py)  *)
(*   - _post_json_with_retries                             (agent_core.py) *)
(*   - get_all_specs / save_spec                (services/spec_service.py) *)
(*                                                                         *)
(* Text is modelled as a sequence of tokens (a token is one character or   *)
(* one indivisible word of the alphabet), so that concatenation, join,     *)
(* split, strip and upper() are computed, not assumed.  An optional value  *)
(* (Python None or a value) is the empty set or a singleton.               *)
(***************************************************************************)
EXTENDS Integers, Sequences, FiniteSets, TLC

VARIABLES mb_specs, mb_concept, mb_campaign, mb_jobs, mb_pc,
          batches, assets, uuid, plans, last,
          fv_rows, fv_platform, fv_result,
          px_platform, px_campaign, px_feed_rows, px_rows, px_rules,
          px_export, px_result, px_op,
          rt_pc, rt_max_retries, rt_attempt, rt_log, rt_result,
          sv_path, sv_tmp, sv_inodes, sv_flock, sv_tlock, sv_cache, sv_clock,
          sv_w, sv_proc, sv_saved, sv_calls,
          cp_gen, cp_upd

mbVars   == <<mb_specs, mb_concept, mb_campaign, mb_jobs, mb_pc>>
planVars == <<batches, assets, uuid, plans, last>>
fvVars   == <<fv_rows, fv_platform, fv_result>>
vars     == <<mb_specs, mb_concept, mb_campaign, mb_jobs, mb_pc,
              batches, assets, uuid, plans, last,
              fv_rows, fv_platform, fv_result,
              px_platform, px_campaign, px_feed_rows, px_rows, px_rules,
              px_export, px_result, px_op,
              rt_pc, rt_max_retries, rt_attempt, rt_log, rt_result,
              sv_path, sv_tmp, sv_inodes, sv_flock, sv_tlock, sv_cache, sv_clock,
              sv_w, sv_proc, sv_saved, sv_calls,
              cp_gen, cp_upd>>

pxVars   == <<px_platform, px_campaign, px_feed_rows, px_rows, px_rules,
              px_export, px_result, px_op>>

\* the feed validator before any feed is handed to it
FVIdle ==
    /\ fv_rows = <<>>
    /\ fv_platform = ""
    /\ fv_result = {}

\* the platform export before any export is asked for
PXIdle ==
    /\ px_platform = ""
    /\ px_campaign = <<>>
    /\ px_feed_rows = <<>>
    /\ px_rows = <<>>
    /\ px_rules = <<>>
    /\ px_export = {}
    /\ px_result = {}
    /\ px_op = "none"

rtVars   == <<rt_pc, rt_max_retries, rt_attempt, rt_log, rt_result>>

\* no call of _post_json_with_retries made yet
RTIdle ==
    /\ rt_pc = "idle"
    /\ rt_max_retries = 0
    /\ rt_attempt = 0
    /\ rt_log = <<>>
    /\ rt_result = {}

svVars   == <<sv_path, sv_tmp, sv_inodes, sv_flock, sv_tlock, sv_cache, sv_clock,
              sv_w, sv_proc, sv_saved, sv_calls>>

\* the spec service with no file, no worker and no call
SVIdle ==
    /\ sv_path = 0
    /\ sv_tmp = 0
    /\ sv_inodes = <<>>
    /\ sv_flock = <<>>
    /\ sv_tlock = <<>>
    /\ sv_cache = <<>>
    /\ sv_clock = 0
    /\ sv_w = <<>>
    /\ sv_proc = <<>>
    /\ sv_saved = <<>>
    /\ sv_calls = 0

cpVars   == <<cp_gen, cp_upd>>

\* no concurrent request to the plan generator
CPIdle ==
    /\ cp_gen = <<>>
    /\ cp_upd = <<>>

\* the components that came after the platform export
lateVars == <<rtVars, svVars, cpVars>>
LateIdle == RTIdle /\ SVIdle /\ CPIdle

-----------------------------------------------------------------------------
(* Bounds of the model *)

\* longest list of selected specs handed to the builder
MaxSpecs == 3
\* most batches the plan store holds
MaxBatches == 2
\* most assets the plan store holds
MaxAssets == 2
\* longest platform_environments list of one strategy row
MaxEnvs == 2

-----------------------------------------------------------------------------
(* Python values *)

None == {}
Some(x) == {x}
Val(o) == CHOOSE x \in o : TRUE

\* truthiness of an optional string: None and "" are falsy
StrTruthy(o) == o # None /\ o # Some(<<>>)
\* truthiness of an optional int: None and 0 are falsy
IntTruthy(o) == o # None /\ o # Some(0)
\* a or b
OrS(a, b) == IF StrTruthy(a) THEN a ELSE b
OrI(a, b) == IF IntTruthy(a) THEN a ELSE b

DigitChar == <<"0", "1", "2", "3", "4", "5", "6", "7", "8", "9">>

\* str(n) / f"{n}" of a non-negative int
RECURSIVE IntStr(_)
IntStr(n) ==
    IF n < 10 THEN <<DigitChar[n + 1]>>
    ELSE IntStr(n \div 10) \o <<DigitChar[(n % 10) + 1]>>

\* sep.join(parts)
RECURSIVE Join(_, _)
Join(parts, sep) ==
    IF parts = <<>> THEN <<>>
    ELSE IF Len(parts) = 1 THEN parts[1]
    ELSE parts[1] \o sep \o Join(Tail(parts), sep)

\* str.upper(), token by token
UpperTok(t) ==
    CASE t = "mp4"   -> "MP4"
      [] t = "jpg"   -> "JPG"
      [] t = "image" -> "IMAGE"
      [] t = "video" -> "VIDEO"
      [] t = "or"    -> "OR"
      [] t = "asset" -> "ASSET"
      [] t = "x"     -> "X"
      [] OTHER       -> t
Upper(s) == [i \in 1..Len(s) |-> UpperTok(s[i])]

\* str.lower(), token by token
LowerTok(t) ==
    CASE t = "MP4"   -> "mp4"
      [] t = "JPG"   -> "jpg"
      [] t = "IMAGE" -> "image"
      [] t = "VIDEO" -> "video"
      [] t = "OR"    -> "or"
      [] t = "ASSET" -> "asset"
      [] t = "X"     -> "x"
      [] OTHER       -> t
Lower(s) == [i \in 1..Len(s) |-> LowerTok(s[i])]

\* str.replace(a, b) for single tokens a, b
Replace(s, a, b) == [i \in 1..Len(s) |-> IF s[i] = a THEN b ELSE s[i]]

IsSpace(t) == t = " " \/ t = "\n"

\* str.strip()
RECURSIVE LStrip(_)
LStrip(s) == IF s # <<>> /\ IsSpace(s[1]) THEN LStrip(Tail(s)) ELSE s
RECURSIVE RStrip(_)
RStrip(s) ==
    IF s # <<>> /\ IsSpace(s[Len(s)]) THEN RStrip(SubSeq(s, 1, Len(s) - 1)) ELSE s
Strip(s) == RStrip(LStrip(s))

\* s.split(sep)[0] for a single-token separator: the text before the first sep
RECURSIVE SplitFirst(_, _)
SplitFirst(s, sep) ==
    IF s = <<>> \/ s[1] = sep THEN <<>>
    ELSE <<s[1]>> \o SplitFirst(Tail(s), sep)

\* s.split()[0]: the first whitespace-delimited word (s holds one)
RECURSIVE FirstWordOf(_)
FirstWordOf(s) ==
    IF s = <<>> \/ IsSpace(s[1]) THEN <<>>
    ELSE <<s[1]>> \o FirstWordOf(Tail(s))
FirstWord(s) == FirstWordOf(LStrip(s))

-----------------------------------------------------------------------------
(* services/matrix_builder.py *)

\* spec.get(k) is None for every key the dict does not hold
NoSpec ==
    [dimensions |-> None, width |-> None, height |-> None,
     file_type |-> None, media_type |-> None,
     aspect_ratio |-> None, orientation |-> None,
     platform_name |-> None, platform |-> None,
     id |-> None, spec_id |-> None,
     format_name |-> None, placement |-> None,
     safe_zone_notes |-> None, notes |-> None, safe_zone |-> None,
     max_duration |-> None, max_duration_seconds |-> None,
     file_size_limit_kb |-> None]

FILE_FORMAT_KEYS ==
    { <<"video">>, <<"image">>, <<"image", "_", "or", "_", "video">>,
      <<"html5">>, <<"image", "_", "or", "_", "html5">>,
      <<"video", "_", "or", "_", "image">> }

FILE_FORMAT_MAP(k) ==
    CASE k = <<"video">> -> <<"MP4">>
      [] k = <<"image">> -> <<"JPG/PNG">>
      [] k = <<"image", "_", "or", "_", "video">> -> <<"MP4/JPG">>
      [] k = <<"html5">> -> <<"HTML5">>
      [] k = <<"image", "_", "or", "_", "html5">> -> <<"HTML5/JPG">>
      [] k = <<"video", "_", "or", "_", "image">> -> <<"MP4/JPG">>

\* AUDIO_DEFAULTS.get(base_type)
AUDIO_DEFAULTS(k) ==
    IF k = <<"video">>
    THEN Some(<<"Sound on recommended; ensure captions for accessibility">>)
    ELSE None

\* lines 73-78
SpecDimensions(spec) ==
    IF StrTruthy(spec.dimensions) THEN spec.dimensions
    ELSE IF IntTruthy(spec.width) /\ IntTruthy(spec.height)
         THEN Some(IntStr(Val(spec.width)) \o <<"x">> \o IntStr(Val(spec.height)))
         ELSE spec.dimensions

\* line 80
SpecFileType(spec) == Val(OrS(OrS(spec.file_type, spec.media_type), Some(<<"asset">>)))
\* line 81
SpecAspectRatio(spec) == Val(OrS(OrS(spec.aspect_ratio, spec.orientation), Some(<<>>)))
\* line 83
SpecPlatformName(spec) == Val(OrS(OrS(spec.platform_name, spec.platform), Some(<<"Unknown">>)))
\* line 84 (idx is 0-based, as enumerate gives it)
SpecId(spec, idx) == Val(OrS(OrS(spec.id, spec.spec_id), Some(<<"SPEC-">> \o IntStr(idx + 1))))
\* line 85
SpecFormatName(spec) == Val(OrS(OrS(spec.format_name, spec.placement), Some(<<>>)))
\* lines 87-92
SpecSafeNotes(spec) ==
    Val(OrS(OrS(OrS(spec.safe_zone_notes, spec.notes), spec.safe_zone), Some(<<>>)))
\* line 93
SpecMaxDuration(spec) == OrI(spec.max_duration, spec.max_duration_seconds)

\* line 99
key_dimensions(spec) == Val(OrS(SpecDimensions(spec), Some(<<"GENERIC">>)))
\* line 100
key_file(spec) == Val(OrS(Some(SpecFileType(spec)), Some(<<"asset">>)))
\* a group key that also tells platforms apart
group_key_per_platform(spec, creative_concept) ==
    SpecPlatformName(spec) \o <<"_">> \o key_dimensions(spec) \o <<"_">>
    \o key_file(spec) \o <<"_">> \o creative_concept

\* line 101
group_key(spec, creative_concept) ==
    key_dimensions(spec) \o <<"_">> \o key_file(spec) \o <<"_">> \o creative_concept

\* lines 104-108: the technical summary assembled when the job is created
TechnicalSummary(spec) ==
    Join(<<key_dimensions(spec)>>
         \o (IF IntTruthy(SpecMaxDuration(spec))
             THEN <<IntStr(Val(SpecMaxDuration(spec))) \o <<"s">> >>
             ELSE <<>>)
         \o <<Upper(SpecFileType(spec))>>,
         <<",", " ">>)

\* line 111
base_type(spec) == FirstWord(Replace(Lower(SpecFileType(spec)), "_", " "))

\* line 112
FileFormat(spec) ==
    IF Lower(SpecFileType(spec)) \in FILE_FORMAT_KEYS
    THEN FILE_FORMAT_MAP(Lower(SpecFileType(spec)))
    ELSE Upper(SpecFileType(spec))

\* a job id numbered by the position of the spec instead of the job count
JobIdFromIndex(n_jobs, idx) == <<"JOB-">> \o IntStr(idx + 1)

\* line 121: the id of the job created when n_jobs jobs exist
JobId(n_jobs, idx) == <<"JOB-">> \o IntStr(n_jobs + 1)

\* lines 120-139
NewJob(spec, idx, n_jobs, creative_concept, campaign_name, smp) ==
    [job_id |-> JobId(n_jobs, idx),
     creative_concept |-> creative_concept,
     asset_type |-> Strip((IF SpecAspectRatio(spec) # <<>> THEN SpecAspectRatio(spec)
                           ELSE key_dimensions(spec)) \o <<" ">> \o SpecFileType(spec)),
     technical_summary |-> TechnicalSummary(spec),
     destinations |-> <<>>,
     campaign_name |-> campaign_name,
     single_minded_proposition |-> smp,
     file_format |-> FileFormat(spec),
     audio_spec |-> AUDIO_DEFAULTS(base_type(spec)),
     requires_subtitles |-> (base_type(spec) = <<"video">>),
     codec |-> IF base_type(spec) = <<"video">> THEN Some(<<"H.264">>) ELSE None,
     frame_rate |-> IF base_type(spec) = <<"video">> THEN Some(<<"30fps">>) ELSE None,
     round_label |-> <<"R1">>,
     version_tag |-> <<"v1">>,
     priority |-> <<"Medium">>,
     status |-> <<"Pending">>,
     production_notes |-> None,
     max_duration_seconds |-> None]

\* lines 145-155
Destination(spec, idx) ==
    [platform_name |-> SpecPlatformName(spec),
     spec_id |-> SpecId(spec, idx),
     format_name |-> IF SpecFormatName(spec) # <<>> THEN SpecFormatName(spec)
                     ELSE key_dimensions(spec),
     special_notes |-> IF SpecSafeNotes(spec) # <<>> THEN SpecSafeNotes(spec)
                       ELSE <<"Standard">>,
     max_duration_seconds |-> IF IntTruthy(SpecMaxDuration(spec))
                              THEN SpecMaxDuration(spec) ELSE None,
     dimensions |-> SpecDimensions(spec),
     aspect_ratio |-> SpecAspectRatio(spec),
     media_type |-> SpecFileType(spec),
     file_size_limit_kb |-> IF IntTruthy(spec.file_size_limit_kb)
                            THEN spec.file_size_limit_kb ELSE None]

\* line 159: the note is collected
NoteCollected(spec) ==
    /\ SpecSafeNotes(spec) # <<>>
    /\ Strip(SpecSafeNotes(spec)) # <<>>
    /\ SpecSafeNotes(spec) # <<"Standard">>

\* line 160 (the token "* " stands for the bullet and the space after it)
note_with_platform(spec) ==
    <<"* ">> \o SpecPlatformName(spec) \o <<" (">> \o SpecFormatName(spec)
    \o <<"): ">> \o SpecSafeNotes(spec)

InSeq(x, s) == \E i \in 1..Len(s) : s[i] = x

\* position of group_key in the dicts (0: not a key); the three dicts hold the same keys
KeyIndex(groups, key) ==
    IF \E i \in 1..Len(groups) : groups[i].key = key
    THEN CHOOSE i \in 1..Len(groups) : groups[i].key = key
    ELSE 0

\* lines 71-166: one iteration of the loop.  groups is grouped_jobs,
\* group_safe_zones and group_durations together, in insertion order
LoopBody(groups, spec, idx, creative_concept, campaign_name, smp) ==
    LET key == group_key(spec, creative_concept)
        g1  == IF KeyIndex(groups, key) = 0
               THEN Append(groups,
                           [key |-> key,
                            job |-> NewJob(spec, idx, Len(groups), creative_concept,
                                           campaign_name, smp),
                            safe_zones |-> <<>>,
                            durations |-> <<>>])
               ELSE groups
        k   == KeyIndex(g1, key)
        g   == g1[k]
        sz  == IF NoteCollected(spec) /\ ~InSeq(note_with_platform(spec), g.safe_zones)
               THEN Append(g.safe_zones, note_with_platform(spec))
               ELSE g.safe_zones
        du  == IF IntTruthy(SpecMaxDuration(spec))
               THEN Append(g.durations, Val(SpecMaxDuration(spec)))
               ELSE g.durations
    IN  [g1 EXCEPT ![k] =
            [key |-> key,
             job |-> [g.job EXCEPT !.destinations = Append(@, Destination(spec, idx))],
             safe_zones |-> sz,
             durations |-> du]]

\* the loop of lines 71-166 over selected_specs[1..n]
RECURSIVE Loop(_, _, _, _, _)
Loop(selected_specs, n, creative_concept, campaign_name, smp) ==
    IF n = 0 THEN <<>>
    ELSE LoopBody(Loop(selected_specs, n - 1, creative_concept, campaign_name, smp),
                  selected_specs[n], n - 1, creative_concept, campaign_name, smp)

\* the first duration collected instead of the smallest
FirstOf(duration_list) == duration_list[1]

\* min(duration_list), line 180
MinOf(duration_list) ==
    CHOOSE m \in {duration_list[i] : i \in 1..Len(duration_list)} :
        \A i \in 1..Len(duration_list) : m <= duration_list[i]

SafeZoneHeader == <<"SAFE ZONE GUIDANCE:\n">>
SafeZoneFallback ==
    <<"SAFE ZONE GUIDANCE:\n",
      "* Standard safe zones apply. Check platform specs before final delivery.">>

\* lines 171-175
ProductionNotes(safe_zone_list) ==
    IF safe_zone_list # <<>>
    THEN SafeZoneHeader \o Join(safe_zone_list, <<"\n">>)
    ELSE SafeZoneFallback

\* line 183
UpdatedSummary(technical_summary, max_duration_seconds) ==
    SplitFirst(technical_summary, ",") \o <<",", " ", "max", " ">>
    \o IntStr(max_duration_seconds) \o <<"s">>

\* lines 169-183
PostProcess(g) ==
    LET j1 == [g.job EXCEPT !.production_notes = Some(ProductionNotes(g.safe_zones))]
    IN  IF g.durations # <<>>
        THEN LET m == MinOf(g.durations)
             IN  [j1 EXCEPT !.max_duration_seconds = Some(m),
                            !.technical_summary =
                                IF m # 0 THEN UpdatedSummary(@, m) ELSE @]
        ELSE j1

\* MatrixBuilder.group_specs_by_creative
group_specs_by_creative(selected_specs, creative_concept, campaign_name, smp) ==
    LET groups == Loop(selected_specs, Len(selected_specs), creative_concept,
                       campaign_name, smp)
    IN  [i \in 1..Len(groups) |-> PostProcess(groups[i])]

-----------------------------------------------------------------------------
(* Inputs of the builder *)

D12    == <<"1", "x", "2">>
Note1  == <<"Avoid", " ", "bottom">>
Note2  == <<"Keep", " ", "logo">>

\* the specs a caller selects from: explicit dimensions or width/height,
\* file_type or media_type, with and without format name, note and duration
SpecPool ==
    { [NoSpec EXCEPT !.platform = Some(<<"Meta">>), !.dimensions = Some(D12),
                     !.file_type = Some(<<"mp4">>), !.max_duration = Some(15),
                     !.notes = Some(Note1)],
      [NoSpec EXCEPT !.platform = Some(<<"TikTok">>), !.dimensions = Some(D12),
                     !.file_type = Some(<<"mp4">>), !.max_duration = Some(60),
                     !.notes = Some(<<>>), !.format_name = Some(<<"Feed">>),
                     !.id = Some(<<"TT">>)],
      [NoSpec EXCEPT !.platform_name = Some(<<"YouTube">>), !.width = Some(1),
                     !.height = Some(2), !.media_type = Some(<<"mp4">>),
                     !.placement = Some(<<"Shorts">>),
                     !.safe_zone_notes = Some(<<"Standard">>),
                     !.max_duration_seconds = Some(6),
                     !.orientation = Some(<<"9:16">>)],
      [NoSpec EXCEPT !.notes = Some(<<" ">>), !.max_duration = Some(0),
                     !.width = Some(0), !.height = Some(2)],
      [NoSpec EXCEPT !.platform = Some(<<"Meta">>), !.dimensions = Some(D12),
                     !.file_type = Some(<<"image", "_", "or", "_", "video">>),
                     !.format_name = Some(<<"Feed">>), !.safe_zone = Some(Note1)],
      [NoSpec EXCEPT !.platform = Some(<<"Meta">>),
                     !.dimensions = Some(D12 \o <<"_", "image">>),
                     !.file_type = Some(<<"or", "_", "video">>),
                     !.format_name = Some(<<"Feed">>), !.notes = Some(Note2),
                     !.max_duration = Some(30)],
      [NoSpec EXCEPT !.platform = Some(<<"Meta">>), !.dimensions = Some(D12),
                     !.file_type = Some(<<"mp4">>), !.max_duration = Some(30),
                     !.format_name = Some(<<"Reels">>), !.notes = Some(Note1),
                     !.file_size_limit_kb = Some(150)] }

Concepts == { <<"Summer", " ", "Sale">>, <<"a", "_", "b">> }
Campaigns == { None, Some(<<"Q3">>) }

RECURSIVE SeqsUpTo(_, _)
SeqsUpTo(S, n) ==
    IF n = 0 THEN { <<>> }
    ELSE LET shorter == SeqsUpTo(S, n - 1)
         IN  shorter \cup { Append(q, x) : q \in {r \in shorter : Len(r) = n - 1}, x \in S }

MBInit ==
    /\ mb_specs \in SeqsUpTo(SpecPool, MaxSpecs)
    /\ mb_concept \in Concepts
    /\ mb_campaign \in Campaigns
    /\ mb_jobs = <<>>
    /\ mb_pc = "ready"

\* one call of group_specs_by_creative on the selected specs
BuildJobs ==
    /\ mb_pc = "ready"
    /\ mb_jobs' = group_specs_by_creative(mb_specs, mb_concept, mb_campaign, None)
    /\ mb_pc' = "done"
    /\ UNCHANGED <<mb_specs, mb_concept, mb_campaign>>

PlanIdle ==
    /\ batches = <<>>
    /\ assets = <<>>
    /\ uuid = 0
    /\ plans = <<>>
    /\ last = [op |-> "none"]

InitMB == MBInit /\ PlanIdle /\ FVIdle /\ PXIdle /\ LateIdle
NextMB == BuildJobs /\ UNCHANGED <<planVars, fvVars, pxVars, lateVars>>
SpecMB == InitMB /\ [][NextMB]_vars

-----------------------------------------------------------------------------
(* Properties of group_specs_by_creative *)

MBDone == mb_pc = "done"
NSpecs == Len(mb_specs)
NJobs  == Len(mb_jobs)

\* the normalized triple of the i-th input spec
Triple(i) == <<key_dimensions(mb_specs[i]), key_file(mb_specs[i]), mb_concept>>

\* the destination the i-th input spec gives
DestOf(i) == Destination(mb_specs[i], i - 1)

\* the destinations of the input specs that f sends to job j, in input order
RECURSIVE DestsInto(_, _, _)
DestsInto(f, j, n) ==
    IF n = 0 THEN <<>>
    ELSE DestsInto(f, j, n - 1) \o (IF f[n] = j THEN <<DestOf(n)>> ELSE <<>>)

\* f assigns every input spec to the job that holds its destination
Placement(f) == \A j \in 1..NJobs : mb_jobs[j].destinations = DestsInto(f, j, NSpecs)

RECURSIVE SumDestinations(_)
SumDestinations(n) ==
    IF n = 0 THEN 0 ELSE SumDestinations(n - 1) + Len(mb_jobs[n].destinations)

C2_OneJobPerTriple ==
    MBDone =>
        /\ \E f \in [1..NSpecs -> 1..NJobs] :
              /\ Placement(f)
              /\ \A i, k \in 1..NSpecs : f[i] = f[k] => Triple(i) = Triple(k)
        /\ NJobs = Cardinality({ Triple(i) : i \in 1..NSpecs })

\* the destinations of a job that carry a duration
Durations(job) ==
    { Val(job.destinations[d].max_duration_seconds) :
        d \in { e \in 1..Len(job.destinations) :
                  job.destinations[e].max_duration_seconds # None } }

\* C3: a job's max_duration_seconds is the minimum of its destinations'
\* durations, and None when no destination carries one.
C3_StrictestDuration ==
    MBDone =>
        \A j \in 1..NJobs :
            IF Durations(mb_jobs[j]) = {}
            THEN mb_jobs[j].max_duration_seconds = None
            ELSE /\ mb_jobs[j].max_duration_seconds # None
                 /\ Val(mb_jobs[j].max_duration_seconds) \in Durations(mb_jobs[j])
                 /\ \A x \in Durations(mb_jobs[j]) :
                        Val(mb_jobs[j].max_duration_seconds) <= x

\* a job whose first destination does not carry the smallest duration, and a
\* job without any duration
C3_Witness ==
    /\ MBDone
    /\ \E j \in 1..NJobs :
          /\ Cardinality(Durations(mb_jobs[j])) >= 2
          /\ mb_jobs[j].destinations[1].max_duration_seconds # None
          /\ mb_jobs[j].max_duration_seconds
               # mb_jobs[j].destinations[1].max_duration_seconds
    /\ \E j \in 1..NJobs : mb_jobs[j].max_duration_seconds = None

\* the note of a destination counts: non-blank and not the literal Standard
Noted(d) == Strip(d.special_notes) # <<>> /\ d.special_notes # <<"Standard">>

\* the line of a destination, from the destination's own fields
NoteLine(d) ==
    <<"* ">> \o d.platform_name \o <<" (">> \o d.format_name \o <<"): ">>
    \o d.special_notes

\* the distinct lines of the first n destinations, in first-occurrence order
RECURSIVE DistinctLines(_, _)
DistinctLines(dests, n) ==
    IF n = 0 THEN <<>>
    ELSE LET before == DistinctLines(dests, n - 1)
         IN  IF Noted(dests[n]) /\ ~InSeq(NoteLine(dests[n]), before)
             THEN Append(before, NoteLine(dests[n]))
             ELSE before

\* C4: production_notes is the header followed by one line per distinct note,
\* each line built from the platform_name, format_name and special_notes of a
\* destination of the job; the fallback sentence when no note counts.
C4_NotesFromDestinations ==
    MBDone =>
        \A j \in 1..NJobs :
            LET lines == DistinctLines(mb_jobs[j].destinations,
                                       Len(mb_jobs[j].destinations))
            IN  mb_jobs[j].production_notes =
                    Some(IF lines # <<>>
                         THEN SafeZoneHeader \o Join(lines, <<"\n">>)
                         ELSE SafeZoneFallback)

IsPrefix(p, s) == Len(p) <= Len(s) /\ SubSeq(s, 1, Len(p)) = p

Contains(s, p) ==
    \E i \in 0..(Len(s) - Len(p)) : SubSeq(s, i + 1, i + Len(p)) = p

\* C5: with a duration in the group, the final technical_summary is the one
\* assembled at creation with the minimum duration appended: it starts with
\* the creation-time summary and still holds the uppercased file type.
C5_SummaryKeepsFileType ==
    MBDone =>
        \A j \in 1..NJobs :
            mb_jobs[j].max_duration_seconds # None =>
                \A i \in 1..NSpecs :
                    DestOf(i) = mb_jobs[j].destinations[1] =>
                        /\ IsPrefix(TechnicalSummary(mb_specs[i]),
                                    mb_jobs[j].technical_summary)
                        /\ Contains(mb_jobs[j].technical_summary,
                                    Upper(SpecFileType(mb_specs[i])))
                        /\ Contains(mb_jobs[j].technical_summary,
                                    IntStr(Val(mb_jobs[j].max_duration_seconds)))

\* the input position of the spec that created job j
FirstIndex(j) ==
    CHOOSE i \in 1..NSpecs :
        /\ DestOf(i) = mb_jobs[j].destinations[1]
        /\ \A k \in 1..(i - 1) : DestOf(k) # mb_jobs[j].destinations[1]

\* C6: jobs come in creation order (first occurrence of their group in the
\* input), the k-th job is JOB-k, and an empty input gives no job.
C6_JobIdsSequential ==
    MBDone =>
        /\ \A k \in 1..NJobs : mb_jobs[k].job_id = <<"JOB-">> \o IntStr(k)
        /\ \A j, k \in 1..NJobs : j # k => mb_jobs[j].job_id # mb_jobs[k].job_id
        /\ \A j, k \in 1..NJobs : j < k => FirstIndex(j) < FirstIndex(k)
        /\ (mb_specs = <<>> => mb_jobs = <<>>)

\* two jobs, the second created by the third spec of the input
C6_Witness ==
    /\ MBDone
    /\ NSpecs = 3
    /\ NJobs = 2
    /\ FirstIndex(2) = 3

-----------------------------------------------------------------------------
(* services/spec_library.py *)

SPEC_LIBRARY ==
    [META_STORY |->
        [platform |-> <<"Meta">>, placement |-> <<"Stories", " ", "/", " ", "Reels">>,
         format_name |-> <<"9:16", " ", "Vertical", " ", "Video">>,
         dimensions |-> <<"1080x1920">>, aspect_ratio |-> <<"9:16">>,
         max_duration |-> 15, file_type |-> <<"mp4">>, asset_type |-> <<"video">>,
         safe_zone |-> <<"Leave ~250px at top and bottom free of text and critical UI.">>],
     META_FEED |->
        [platform |-> <<"Meta">>, placement |-> <<"Feed", " ", "/", " ", "Carousel">>,
         format_name |-> <<"4:5", " ", "Vertical">>,
         dimensions |-> <<"1080x1350">>, aspect_ratio |-> <<"4:5">>,
         max_duration |-> 60, file_type |-> <<"mp4/jpg">>, asset_type |-> <<"static">>,
         safe_zone |-> <<"No strict safe zone, but design for thumb-stopping legibility.">>],
     DISPLAY_MPU |->
        [platform |-> <<"Google", " ", "Display">>, placement |-> <<"MPU">>,
         format_name |-> <<"Medium", " ", "Rectangle">>,
         dimensions |-> <<"300x250">>, aspect_ratio |-> <<"1.2:1">>,
         max_duration |-> 0, file_type |-> <<"html5/jpg">>, asset_type |-> <<"html5">>,
         safe_zone |-> <<"None; keep copy large and minimal given limited area.">>],
     DISPLAY_LEADERBOARD |->
        [platform |-> <<"Google", " ", "Display">>, placement |-> <<"Leaderboard">>,
         format_name |-> <<"728x90", " ", "Banner">>,
         dimensions |-> <<"728x90">>, aspect_ratio |-> <<"8:1">>,
         max_duration |-> 0, file_type |-> <<"html5/jpg">>, asset_type |-> <<"html5">>,
         safe_zone |-> <<"Very limited height; prioritize logo + single line CTA.">>],
     YOUTUBE_SHORTS |->
        [platform |-> <<"YouTube">>, placement |-> <<"Shorts">>,
         format_name |-> <<"9:16", " ", "Vertical", " ", "Video">>,
         dimensions |-> <<"1080x1920">>, aspect_ratio |-> <<"9:16">>,
         max_duration |-> 60, file_type |-> <<"mp4">>, asset_type |-> <<"video">>,
         safe_zone |-> <<"Avoid UI overlays at bottom and right-hand side.">>],
     LINKEDIN_FEED |->
        [platform |-> <<"LinkedIn">>, placement |-> <<"Feed">>,
         format_name |-> <<"1:1", " ", "/", " ", "4:5", " ", "Image", " ", "or", " ", "Video">>,
         dimensions |-> <<"1200x1200", " ", "or", " ", "1080x1350">>,
         aspect_ratio |-> <<"1:1", " ", "/", " ", "4:5">>,
         max_duration |-> 60, file_type |-> <<"mp4/jpg">>, asset_type |-> <<"static">>,
         safe_zone |-> <<"B2B context; favor clarity, legible charts, and restrained motion.">>]]

\* a lookup that answers an unknown id with a default profile
get_spec_or_default(spec_id) ==
    IF spec_id \in DOMAIN SPEC_LIBRARY
    THEN Some(SPEC_LIBRARY[spec_id])
    ELSE Some(SPEC_LIBRARY["META_FEED"])

\* SPEC_LIBRARY.get(spec_id)
get_spec_by_id(spec_id) ==
    IF spec_id \in DOMAIN SPEC_LIBRARY THEN Some(SPEC_LIBRARY[spec_id]) ELSE None

-----------------------------------------------------------------------------
(* services/matrix_generator.py.  batches is _BATCHES and assets is _ASSETS,  *)
(* each a dict in insertion order; uuid counts the ids uuid4 has handed out   *)
(* (every uuid4 value is new, and 0 is an id no object has); plans holds, for  *)
(* every generate_production_plan call, the batch it returned and the ids of  *)
(* the assets it returned; last is the latest call with its return value.     *)

\* str.replace(a, "")
Remove(s, a) == SelectSeq(s, LAMBDA t : t # a)

\* ProductionBatch(...), lines 41-46 and 50-55 (" - " stands for the dash)
NewBatch(id, campaign_id, strategy, concept, batch_name) ==
    [id |-> id,
     campaign_id |-> campaign_id,
     strategy_segment_id |-> strategy.segment_id,
     concept_id |-> concept.id,
     batch_name |-> IF StrTruthy(batch_name) THEN Val(batch_name)
                    ELSE strategy.segment_name \o <<" - ">> \o concept.name]

\* an asset ticket that names itself as its batch
NewAssetOwnBatch(id, batch_id, spec, strategy, concept, source_asset_requirements, adaptation_instruction) ==
    [id |-> id, batch_id |-> id, status |-> <<"Todo">>]

\* lines 65-88: the asset ticket of one resolved spec
NewAsset(id, batch_id, spec, strategy, concept, source_asset_requirements, adaptation_instruction) ==
    LET safe_segment == IF Remove(strategy.segment_name, " ") # <<>>
                        THEN Remove(strategy.segment_name, " ")
                        ELSE strategy.segment_id
        safe_platform == Remove(spec.platform, " ")
        safe_place == Remove(spec.placement, " ")
    IN  [id |-> id,
         batch_id |-> batch_id,
         asset_name |-> safe_segment \o <<"_">> \o safe_platform \o <<"_">> \o safe_place,
         platform |-> spec.platform,
         placement |-> spec.placement,
         spec_dimensions |-> spec.dimensions,
         spec_details |-> spec,
         status |-> <<"Todo">>,
         assignee |-> None,
         asset_type |-> spec.asset_type,
         visual_directive |-> concept.visual_description,
         copy_headline |-> strategy.primary_message_pillar,
         source_asset_requirements |-> source_asset_requirements,
         adaptation_instruction |-> adaptation_instruction,
         file_url |-> None]

\* lines 58-91: the assets of env_ids[1..n]; the first gets the id first_id
RECURSIVE PlanAssets(_, _, _, _, _, _)
PlanAssets(env_ids, n, first_id, batch_id, strategy, concept) ==
    IF n = 0 THEN <<>>
    ELSE LET before == PlanAssets(env_ids, n - 1, first_id, batch_id, strategy, concept)
             spec == get_spec_by_id(env_ids[n])
         IN  IF spec = None THEN before
             ELSE Append(before,
                         NewAsset(first_id + Len(before), batch_id, Val(spec),
                                  strategy, concept, None, None))

\* generate_production_plan: the batch and the assets it returns, with the ids
\* uuid4 gives after next_id ids were handed out
generate_production_plan(next_id, campaign_id, strategy, concept) ==
    LET env_ids == IF strategy.platform_environments = None THEN <<>>
                   ELSE Val(strategy.platform_environments)
        \* lines 41-47 and 50-56 build the same batch
        batch == NewBatch(next_id + 1, campaign_id, strategy, concept, None)
    IN  [batch |-> batch,
         assets |-> IF env_ids = <<>> THEN <<>>
                    ELSE PlanAssets(env_ids, Len(env_ids), next_id + 2, batch.id,
                                    strategy, concept)]

\* a store lookup that falls back to the newest entry
StoreGetOrLast(store, id) ==
    IF \E i \in 1..Len(store) : store[i].id = id
    THEN Some(store[CHOOSE i \in 1..Len(store) : store[i].id = id])
    ELSE IF store # <<>> THEN Some(store[Len(store)]) ELSE None

\* _BATCHES.get(id) / _ASSETS.get(id)
StoreGet(store, id) ==
    IF \E i \in 1..Len(store) : store[i].id = id
    THEN Some(store[CHOOSE i \in 1..Len(store) : store[i].id = id])
    ELSE None

\* every asset in the store, whatever its batch
AllAssets(store, batch_id) == store

\* line 104
AssetsOfBatch(store, batch_id) == SelectSeq(store, LAMBDA a : a.batch_id = batch_id)

\* get_batch, lines 100-105
get_batch(batch_store, asset_store, batch_id) ==
    IF StoreGet(batch_store, batch_id) = None
    THEN [batch |-> None, assets |-> <<>>]
    ELSE [batch |-> StoreGet(batch_store, batch_id),
          assets |-> AssetsOfBatch(asset_store, batch_id)]

\* a status write that reaches every asset of the same batch
StatusWrittenToBatch(store, asset, status) ==
    [i \in 1..Len(store) |->
        IF store[i].batch_id = asset.batch_id
        THEN [store[i] EXCEPT !.status = status] ELSE store[i]]

\* lines 115-116
StatusWritten(store, asset, status) ==
    [i \in 1..Len(store) |->
        IF store[i].id = asset.id THEN [store[i] EXCEPT !.status = status] ELSE store[i]]

\* update_asset_status, lines 112-117: the store after the call and the return value
update_asset_status(store, asset_id, status) ==
    IF StoreGet(store, asset_id) = None
    THEN [assets |-> store, result |-> None]
    ELSE LET written == StatusWritten(store, Val(StoreGet(store, asset_id)), status)
         IN  [assets |-> written, result |-> StoreGet(written, asset_id)]

(* Inputs of the plan generator *)

EnvIds == { "META_STORY", "DISPLAY_MPU", "NO_SUCH_ENV" }

\* the status strings a caller sends: a workflow status and an arbitrary string
Statuses == { <<"Approved">>, <<"not-a-status">> }

TheConcept ==
    [id |-> <<"concept-1">>, name |-> <<"Night", " ", "Run">>,
     visual_description |-> <<"Runner at dusk">>]

StrategyRow(env_ids) ==
    [segment_id |-> <<"seg-1">>, segment_name |-> <<"Gen", " ", "Z">>,
     primary_message_pillar |-> <<"Reliability > Speed">>,
     platform_environments |-> Some(env_ids)]

\* the platform_environments lists a strategy row carries
EnvLists == SeqsUpTo(EnvIds, MaxEnvs)

\* how many of the environment ids resolve
Resolving(env_ids) ==
    Cardinality({ i \in 1..Len(env_ids) : env_ids[i] \in DOMAIN SPEC_LIBRARY })

PlanInit ==
    /\ batches = <<>>
    /\ assets = <<>>
    /\ uuid = 0
    /\ plans = <<>>
    /\ last = [op |-> "none"]

\* POST /generate
GenerateProductionPlan ==
    \E env_ids \in EnvLists :
        LET r == generate_production_plan(uuid, <<"campaign-1">>, StrategyRow(env_ids),
                                          TheConcept)
        IN  /\ Len(batches) < MaxBatches
            /\ Len(assets) + Resolving(env_ids) <= MaxAssets
            /\ batches' = Append(batches, r.batch)
            /\ assets' = assets \o r.assets
            /\ uuid' = uuid + 1 + Len(r.assets)
            /\ plans' = Append(plans, [batch |-> r.batch,
                                        asset_ids |-> [i \in 1..Len(r.assets) |->
                                                          r.assets[i].id]])
            /\ last' = [op |-> "generate_production_plan", env_ids |-> env_ids,
                        batch |-> r.batch, assets |-> r.assets]

\* GET /batch/{batch_id}
GetBatch ==
    \E batch_id \in 0..uuid :
        /\ last' = [op |-> "get_batch", batch_id |-> batch_id,
                    result |-> get_batch(batches, assets, batch_id)]
        /\ UNCHANGED <<batches, assets, uuid, plans>>

\* PATCH /asset/{asset_id}/status
UpdateAssetStatus ==
    \E asset_id \in 0..uuid, status \in Statuses :
        LET r == update_asset_status(assets, asset_id, status)
        IN  /\ assets' = r.assets
            /\ last' = [op |-> "update_asset_status", asset_id |-> asset_id,
                        status |-> status, result |-> r.result]
            /\ UNCHANGED <<batches, uuid, plans>>

MBIdle ==
    /\ mb_specs = <<>>
    /\ mb_concept = <<>>
    /\ mb_campaign = None
    /\ mb_jobs = <<>>
    /\ mb_pc = "idle"

InitPlan == PlanInit /\ MBIdle /\ FVIdle /\ PXIdle /\ LateIdle
NextPlan ==
    \/ GenerateProductionPlan /\ UNCHANGED <<mbVars, fvVars, pxVars, lateVars>>
    \/ GetBatch /\ UNCHANGED <<mbVars, fvVars, pxVars, lateVars>>
    \/ UpdateAssetStatus /\ UNCHANGED <<mbVars, fvVars, pxVars, lateVars>>
SpecPlan == InitPlan /\ [][NextPlan]_vars

-----------------------------------------------------------------------------
(* Properties of the plan generator *)

HasId(store, id) == \E i \in 1..Len(store) : store[i].id = id

Ids(store) == [i \in 1..Len(store) |-> store[i].id]

\* the environment ids of a list that are keys of the spec library, in order
ResolvedOf(env_ids) == SelectSeq(env_ids, LAMBDA e : e \in DOMAIN SPEC_LIBRARY)

\* C7: a generate_production_plan call adds exactly one new batch and returns
\* and stores one asset per resolving environment id, in input order, each
\* with the new batch's id; an id that does not resolve gives no asset.
C7_OneBatchOneAssetPerSpec ==
    [][ (last'.op = "generate_production_plan" /\ uuid' # uuid) =>
          LET b == last'.batch
              made == last'.assets
              resolved == ResolvedOf(last'.env_ids)
          IN  /\ batches' = Append(batches, b)
              /\ ~HasId(batches, b.id)
              /\ assets' = assets \o made
              /\ Len(made) = Len(resolved)
              /\ \A i \in 1..Len(made) :
                    /\ made[i].spec_details = SPEC_LIBRARY[resolved[i]]
                    /\ made[i].batch_id = b.id
                    /\ ~HasId(assets, made[i].id)
                    /\ ~HasId(batches', made[i].id)
                    /\ \A k \in 1..Len(made) : k # i => made[k].id # made[i].id
      ]_vars

\* a second batch made from a list with an id that does not resolve before
\* one that does
C7_Witness ==
    /\ last.op = "generate_production_plan"
    /\ Len(batches) = 2
    /\ Len(last.env_ids) = 2
    /\ last.env_ids[1] \notin DOMAIN SPEC_LIBRARY
    /\ Len(last.assets) = 1
    /\ assets[Len(assets)] = last.assets[1]

\* C8: update_asset_status on a known asset sets its status to the given
\* string, whatever it was, and changes nothing else.
C8_StatusWriteFrame ==
    [][ (last'.op = "update_asset_status" /\ HasId(assets, last'.asset_id)) =>
          /\ batches' = batches
          /\ Len(assets') = Len(assets)
          /\ \A k \in 1..Len(assets) :
                assets'[k] = IF assets[k].id = last'.asset_id
                             THEN [assets[k] EXCEPT !.status = last'.status]
                             ELSE assets[k]
          /\ last'.result # None
          /\ Val(last'.result).id = last'.asset_id
          /\ Val(last'.result).status = last'.status
          /\ InSeq(Val(last'.result), assets')
      ]_vars

\* an arbitrary string written as the status of one asset, next to an
\* untouched asset of the same batch
C8_Witness ==
    /\ last.op = "update_asset_status"
    /\ last.result # None
    /\ last.status = <<"not-a-status">>
    /\ \E k \in 1..Len(assets) :
          /\ assets[k].id # last.asset_id
          /\ assets[k].batch_id = Val(last.result).batch_id
          /\ assets[k].status = <<"Todo">>

\* C9: get_batch on the id of a batch a generate_production_plan call returned
\* gives that batch with exactly the assets that call created, in creation
\* order, whatever calls came in between.
C9_GetBatchReturnsItsAssets ==
    last.op = "get_batch" =>
        \A p \in 1..Len(plans) :
            plans[p].batch.id = last.batch_id =>
                /\ last.result.batch = Some(plans[p].batch)
                /\ Ids(last.result.assets) = plans[p].asset_ids
                /\ \A i \in 1..Len(last.result.assets) :
                      /\ last.result.assets[i].batch_id = last.batch_id
                      /\ InSeq(last.result.assets[i], assets)
                /\ \A k \in 1..Len(assets) :
                      assets[k].batch_id = last.batch_id =>
                          InSeq(assets[k], last.result.assets)

\* two batches with an asset each, a status already rewritten, and the first
\* batch read back
C9_Witness ==
    /\ last.op = "get_batch"
    /\ Len(plans) = 2
    /\ plans[1].asset_ids # <<>>
    /\ plans[2].asset_ids # <<>>
    /\ last.batch_id = plans[1].batch.id
    /\ \E k \in 1..Len(assets) : assets[k].status # <<"Todo">>

\* C10: an unknown id gives (None, []) from get_batch and None from
\* update_asset_status, and neither call changes a store.
C10_UnknownIdIsAbsent ==
    [][ /\ (last'.op = "get_batch" /\ ~HasId(batches, last'.batch_id)) =>
              /\ last'.result = [batch |-> None, assets |-> <<>>]
              /\ batches' = batches
              /\ assets' = assets
        /\ (last'.op = "update_asset_status" /\ ~HasId(assets, last'.asset_id)) =>
              /\ last'.result = None
              /\ batches' = batches
              /\ assets' = assets
      ]_vars

\* update_asset_status called with the id of a batch while assets are stored
C10_Witness ==
    /\ last.op = "update_asset_status"
    /\ last.result = None
    /\ assets # <<>>
    /\ HasId(batches, last.asset_id)

-----------------------------------------------------------------------------
(* Feed validator (services/feed_validator.py)                             *)
(*                                                                         *)
(* A feed row is a Python dict with string values: a function from its     *)
(* keys to texts.  A platform name and a field name are single tokens.     *)
(* A ValidationIssue is a record; an Optional[ValidationIssue] is None or  *)
(* Some(issue).                                                            *)

\* longest feed handed to the validator
MaxRows == 2

\* row.get(key)
Get(row, key) == IF key \in DOMAIN row THEN Some(row[key]) ELSE None

\* the keys of validate_feed's constraints that the validator reads
PLATFORM_CONSTRAINTS ==
    [ flashtalking |->
        [ max_headline_length |-> 40, max_body_length |-> 90, max_cta_length |-> 25,
          required_fields |-> <<"creative_id", "creative_name", "headline", "click_url">>,
          image_formats |-> << <<"jpg">>, <<"jpeg">>, <<"png">>, <<"gif">> >> ],
      innovid |->
        [ max_headline_length |-> 50, max_body_length |-> 120, max_cta_length |-> 30,
          required_fields |-> <<"creative_id", "creative_name", "click_through_url">>,
          image_formats |-> << <<"jpg">>, <<"jpeg">>, <<"png">> >> ],
      celtra |->
        [ max_headline_length |-> 45, max_body_length |-> 100, max_cta_length |-> 20,
          required_fields |-> <<"feedId", "creativeName">>,
          image_formats |-> << <<"jpg">>, <<"jpeg">>, <<"png">>, <<"gif">>, <<"svg">> >> ],
      storyteq |->
        [ max_headline_length |-> 60, max_body_length |-> 150, max_cta_length |-> 30,
          required_fields |-> <<"template_id", "output_name">>,
          image_formats |-> << <<"jpg">>, <<"jpeg">>, <<"png">> >> ],
      google_studio |->
        [ max_headline_length |-> 30, max_body_length |-> 90, max_cta_length |-> 15,
          required_fields |-> <<"Creative Name", "Exit URL">>,
          image_formats |-> << <<"jpg">>, <<"jpeg">>, <<"png">>, <<"gif">> >> ] ]

\* PLATFORM_CONSTRAINTS.keys(), in the order of the dict
PlatformKeys == <<"flashtalking", "innovid", "celtra", "storyteq", "google_studio">>

ValidationIssue(row_id, field, severity, message, suggestion) ==
    [ row_id |-> row_id, field |-> field, severity |-> severity,
      message |-> message, suggestion |-> suggestion ]

\* len(text) > max_length * 0.9; the float product is compared exactly as
\* the rational 9*max/10 for every limit of PLATFORM_CONSTRAINTS
NearLimitInclusive(length, max_length) == 10 * length >= 9 * max_length
NearLimit(length, max_length) == 10 * length > 9 * max_length

validate_text_length_quiet_at_max(text, max_length, field_name, row_id) ==
    IF text = <<>> THEN None
    ELSE IF Len(text) > max_length THEN
        Some(ValidationIssue(row_id, field_name, "error",
            <<field_name, " exceeds maximum length of ">> \o IntStr(max_length)
                \o <<" characters (current: ">> \o IntStr(Len(text)) \o <<")">>,
            Some(<<"Shorten to ">> \o IntStr(max_length) \o <<" characters or less">>)))
    ELSE IF NearLimit(Len(text), max_length) /\ Len(text) < max_length THEN
        Some(ValidationIssue(row_id, field_name, "warning",
            <<field_name, " is close to maximum length (">> \o IntStr(Len(text))
                \o <<"/">> \o IntStr(max_length) \o <<")">>,
            Some(<<"Consider shortening for readability">>)))
    ELSE None

validate_text_length(text, max_length, field_name, row_id) ==
    IF text = <<>> THEN None
    ELSE IF Len(text) > max_length THEN
        Some(ValidationIssue(row_id, field_name, "error",
            <<field_name, " exceeds maximum length of ">> \o IntStr(max_length)
                \o <<" characters (current: ">> \o IntStr(Len(text)) \o <<")">>,
            Some(<<"Shorten to ">> \o IntStr(max_length) \o <<" characters or less">>)))
    ELSE IF NearLimit(Len(text), max_length) THEN
        Some(ValidationIssue(row_id, field_name, "warning",
            <<field_name, " is close to maximum length (">> \o IntStr(Len(text))
                \o <<"/">> \o IntStr(max_length) \o <<")">>,
            Some(<<"Consider shortening for readability">>)))
    ELSE None

\* url.startswith(("http://", "https://")); a scheme prefix is one token
StartsWithHttp(url) == url # <<>> /\ url[1] \in {"http://", "https://"}

validate_url(url, field_name, row_id, required) ==
    IF url = <<>> THEN
        IF required THEN
            Some(ValidationIssue(row_id, field_name, "error",
                <<field_name, " is required but missing">>,
                Some(<<"Add a valid URL">>)))
        ELSE None
    ELSE IF ~StartsWithHttp(url) THEN
        Some(ValidationIssue(row_id, field_name, "error",
            <<field_name, " must start with http:// or https://">>,
            Some(<<"Add protocol prefix to URL">>)))
    ELSE None

\* s.split(sep)[-1] for a single-token separator: the text after the last sep
RECURSIVE SplitLast(_, _)
SplitLast(s, sep) ==
    IF s = <<>> \/ s[Len(s)] = sep THEN <<>>
    ELSE SplitLast(SubSeq(s, 1, Len(s) - 1), sep) \o <<s[Len(s)]>>

\* url.split(".")[-1].lower().split("?")[0]
Extension(url) == SplitFirst(Lower(SplitLast(url, ".")), "?")

validate_image_format(url, allowed_formats, field_name, row_id) ==
    IF url = <<>> THEN None
    ELSE IF ~InSeq(Extension(url), allowed_formats) THEN
        Some(ValidationIssue(row_id, field_name, "warning",
            <<"Image format '.">> \o Extension(url)
                \o <<"' may not be supported. Allowed: ">>
                \o Join(allowed_formats, <<", ">>),
            Some(<<"Use one of: ">> \o Join(allowed_formats, <<", ">>))))
    ELSE None

\* color.lstrip("#")
RECURSIVE LStripHash(_)
LStripHash(s) == IF s # <<>> /\ s[1] = "#" THEN LStripHash(Tail(s)) ELSE s

HexDigits ==
    { "0", "1", "2", "3", "4", "5", "6", "7", "8", "9",
      "a", "b", "c", "d", "e", "f", "A", "B", "C", "D", "E", "F" }

\* int(color, 16) does not raise, for a text of digits and letters
IsHex(color) == \A i \in 1..Len(color) : color[i] \in HexDigits

validate_color_hex(color, field_name, row_id) ==
    IF color = <<>> THEN None
    ELSE LET c == LStripHash(color)
         IN  IF Len(c) \notin {3, 6} THEN
                 Some(ValidationIssue(row_id, field_name, "error",
                     <<"Invalid hex color format: ">> \o c,
                     Some(<<"Use format #RRGGBB or #RGB">>)))
             ELSE IF ~IsHex(c) THEN
                 Some(ValidationIssue(row_id, field_name, "error",
                     <<"Invalid hex color characters: ">> \o c,
                     Some(<<"Use only hexadecimal characters (0-9, A-F)">>)))
             ELSE None


\* an Optional[ValidationIssue] as the list of issues it appends
OptSeq(o) == IF o = None THEN <<>> ELSE <<Val(o)>>

\* the issues one "for field in fields" loop appends, in the order of fields,
\* given the list each field appends
RECURSIVE Flatten(_)
Flatten(lists) ==
    IF lists = <<>> THEN <<>> ELSE lists[1] \o Flatten(Tail(lists))

headline_fields == <<"headline", "Headline", "copy_slot_a_text">>
body_fields == <<"body", "description", "Body Copy", "copy_slot_b_text">>
cta_fields == <<"cta", "cta_text", "CTA", "cta_button_text", "ctaLabel">>
url_fields ==
    <<"click_url", "Click URL", "destination_url", "clickUrl",
      "click_through_url", "Exit URL">>
image_fields ==
    <<"asset_slot_a_path", "asset_slot_b_path", "asset_slot_c_path",
      "Image 1 URL", "Image 2 URL", "heroImage", "image_1", "image_2">>
color_fields ==
    <<"font_color_hex", "cta_bg_color_hex", "background_color_hex",
      "Background Color", "Font Color", "textColor", "backgroundColor">>

\* rows.index(row): the 0-based position of the first row equal to row
RowsIndex(rows, row) == (CHOOSE i \in 1..Len(rows) :
                            rows[i] = row /\ \A k \in 1..(i - 1) : rows[k] # row) - 1

\* row.get("row_id") or row.get("creative_id") or row.get("feedId")
\*     or str(rows.index(row))
RowId(rows, row) ==
    Val(OrS(OrS(OrS(Get(row, "row_id"), Get(row, "creative_id")), Get(row, "feedId")),
            Some(IntStr(RowsIndex(rows, row)))))

\* "if not row.get(field)": one error per required field that is absent or ""
RequiredIssues(row, row_id, constraints) ==
    Flatten([n \in 1..Len(constraints.required_fields) |->
        LET field == constraints.required_fields[n] IN
            IF ~StrTruthy(Get(row, field)) THEN
                <<ValidationIssue(row_id, field, "error",
                    <<"Required field '", field, "' is missing">>,
                    Some(<<"Add value for ", field>>))>>
            ELSE <<>>])

\* the three text loops; every platform of PLATFORM_CONSTRAINTS declares its
\* three limits, so constraints.get never falls back to its default
TextIssues(row, row_id, fields, max_length) ==
    Flatten([n \in 1..Len(fields) |->
        LET field == fields[n] IN
            IF field \in DOMAIN row
            THEN OptSeq(validate_text_length(row[field], max_length, field, row_id))
            ELSE <<>>])

UrlIssues(row, row_id, constraints) ==
    Flatten([n \in 1..Len(url_fields) |->
        LET field == url_fields[n] IN
            IF field \in DOMAIN row
            THEN OptSeq(validate_url(row[field], field, row_id,
                                     InSeq(field, constraints.required_fields)))
            ELSE <<>>])

ImageIssues(row, row_id, constraints) ==
    Flatten([n \in 1..Len(image_fields) |->
        LET field == image_fields[n] IN
            IF field \in DOMAIN row /\ row[field] # <<>>
            THEN OptSeq(validate_image_format(row[field], constraints.image_formats,
                                              field, row_id))
            ELSE <<>>])

ColorIssues(row, row_id) ==
    Flatten([n \in 1..Len(color_fields) |->
        LET field == color_fields[n] IN
            IF field \in DOMAIN row /\ row[field] # <<>>
            THEN OptSeq(validate_color_hex(row[field], field, row_id))
            ELSE <<>>])

\* the body of "for row in rows" for one row
RowIssues(rows, row, constraints) ==
    LET row_id == RowId(rows, row)
    IN  RequiredIssues(row, row_id, constraints)
        \o TextIssues(row, row_id, headline_fields, constraints.max_headline_length)
        \o TextIssues(row, row_id, body_fields, constraints.max_body_length)
        \o TextIssues(row, row_id, cta_fields, constraints.max_cta_length)
        \o UrlIssues(row, row_id, constraints)
        \o ImageIssues(row, row_id, constraints)
        \o ColorIssues(row, row_id)

RECURSIVE FeedIssues(_, _, _)
FeedIssues(rows, k, constraints) ==
    IF k > Len(rows) THEN <<>>
    ELSE RowIssues(rows, rows[k], constraints) \o FeedIssues(rows, k + 1, constraints)

\* len([i for i in issues if i.severity == severity])
IssueCount(issues, severity) == Len(issues)
SeverityCount(issues, severity) ==
    Len(SelectSeq(issues, LAMBDA i : i.severity = severity))

PlatformIssue(platform) ==
    ValidationIssue(<<>>, "platform", "error",
        <<"Unknown platform: ", platform>>,
        Some(<<"Use one of: ">>
             \o Join([i \in 1..Len(PlatformKeys) |-> <<PlatformKeys[i]>>], <<", ">>)))

\* the early return for a platform that PLATFORM_CONSTRAINTS does not hold
UnknownPlatformPerRow(rows, platform) ==
    [ is_valid |-> FALSE, total_rows |-> Len(rows), errors |-> 1, warnings |-> 0,
      issues |-> [i \in 1..Len(rows) |-> PlatformIssue(platform)],
      platform |-> platform, summary |-> <<"Unknown platform: ", platform>> ]
UnknownPlatformResult(rows, platform) ==
    [ is_valid |-> FALSE, total_rows |-> Len(rows), errors |-> 1, warnings |-> 0,
      issues |-> <<PlatformIssue(platform)>>,
      platform |-> platform, summary |-> <<"Unknown platform: ", platform>> ]

Summary(platform, rows, errors, warnings) ==
    IF errors = 0 /\ warnings = 0 THEN
        <<"Feed is valid for ", platform, ". ">> \o IntStr(Len(rows))
            \o <<" rows passed all checks.">>
    ELSE IF errors = 0 THEN
        <<"Feed is valid with ">> \o IntStr(warnings)
            \o <<" warnings. Review recommended.">>
    ELSE <<"Feed has ">> \o IntStr(errors)
            \o <<" errors that must be fixed before export.">>

validate_feed(rows, platform) ==
    IF platform \notin DOMAIN PLATFORM_CONSTRAINTS THEN
        UnknownPlatformResult(rows, platform)
    ELSE LET constraints == PLATFORM_CONSTRAINTS[platform]
             issues == FeedIssues(rows, 1, constraints)
             errors == SeverityCount(issues, "error")
             warnings == SeverityCount(issues, "warning")
         IN  [ is_valid |-> errors = 0, total_rows |-> Len(rows),
               errors |-> errors, warnings |-> warnings, issues |-> issues,
               platform |-> platform,
               summary |-> Summary(platform, rows, errors, warnings) ]


(* Feeds handed to the validator *)

Platforms == { PlatformKeys[i] : i \in 1..Len(PlatformKeys) } \cup { "tiktok" }

\* a text of n characters
TextOf(n) == [i \in 1..n |-> "a"]

\* the limits the lengths of a feed's texts are chosen around
LimitsFor(platform) ==
    IF platform \in DOMAIN PLATFORM_CONSTRAINTS THEN PLATFORM_CONSTRAINTS[platform]
    ELSE PLATFORM_CONSTRAINTS["flashtalking"]

\* lengths at, just over and just under a limit m and its nine tenths
LengthsAround(m) == { (9 * m) \div 10, ((9 * m) \div 10) + 1, m - 1, m, m + 1 }

UrlOk == <<"https://", "cdn", ".", "x", "/", "lp">>
Images ==
    { <<"https://", "cdn", ".", "x", "/", "a", ".", "jpg">>,
      <<"https://", "cdn", ".", "x", "/", "a", ".", "JPG", "?", "v=1">>,
      <<"https://", "cdn", ".", "x", "/", "a", ".", "jpg", "?", "v=1", ".", "2">>,
      <<"https://", "cdn", ".", "x", "/", "a", ".", "bmp">>,
      <<"https://", "cdn", ".", "x", "/", "a", ".", "bmp", "?", "f=", "x", ".", "png">> }

\* a row that names every required field of every platform
FullRow ==
    [ k \in { "creative_id", "creative_name", "headline", "click_url",
              "click_through_url", "feedId", "creativeName", "template_id",
              "output_name", "Creative Name", "Exit URL" } |->
        IF k \in { "click_url", "click_through_url", "Exit URL" } THEN UrlOk
        ELSE <<"v">> ]

RowPool(platform) ==
    LET c == LimitsFor(platform)
    IN  { ("creative_id" :> <<"c1">>) @@ ("headline" :> TextOf(n)) :
              n \in LengthsAround(c.max_headline_length) }
        \cup { ("copy_slot_a_text" :> TextOf(c.max_headline_length)),
               ("Headline" :> TextOf(c.max_headline_length + 1)) }
        \cup { ("row_id" :> <<"r2">>) @@ ("Body Copy" :> TextOf(n)) :
                  n \in { (9 * c.max_body_length) \div 10, c.max_body_length + 1 } }
        \cup { ("feedId" :> <<"f3">>) @@ ("cta" :> TextOf(n)) :
                  n \in { 0, ((9 * c.max_cta_length) \div 10) + 1, c.max_cta_length + 1 } }
        \cup { ("row_id" :> <<"r4">>) @@ ("image_1" :> u) : u \in Images }
        \cup { ("click_url" :> <<>>), ("click_url" :> <<"ftp://", "x">>),
               ("click_through_url" :> <<>>) }
        \cup { ("Font Color" :> <<"#", "F", "F", "0">>),
               ("textColor" :> <<"G", "G", "G">>) }
        \cup { FullRow }

FVInit ==
    /\ fv_platform \in Platforms
    /\ fv_rows \in SeqsUpTo(RowPool(fv_platform), MaxRows)
    /\ fv_result = None

\* one call of validate_feed on the feed
ValidateFeed ==
    /\ fv_result = None
    /\ fv_result' = Some(validate_feed(fv_rows, fv_platform))
    /\ UNCHANGED <<fv_rows, fv_platform>>

InitFV == FVInit /\ MBIdle /\ PlanIdle /\ PXIdle /\ LateIdle
NextFV == ValidateFeed /\ UNCHANGED <<mbVars, planVars, pxVars, lateVars>>
SpecFV == InitFV /\ [][NextFV]_vars


-----------------------------------------------------------------------------
(* Properties of validate_feed *)

FVDone == fv_result # None
FVResult == Val(fv_result)
FVKnown == fv_platform \in DOMAIN PLATFORM_CONSTRAINTS

\* how many issues of the result have the severity
NumSeverity(severity) ==
    Cardinality({ i \in 1..Len(FVResult.issues) : FVResult.issues[i].severity = severity })

\* C11: in every result of validate_feed, errors is the number of issues of
\* severity error, warnings the number of issues of severity warning, and
\* is_valid is true exactly when errors is 0.
C11_CountsMatchIssues ==
    FVDone =>
        /\ FVResult.errors = NumSeverity("error")
        /\ FVResult.warnings = NumSeverity("warning")
        /\ FVResult.is_valid = (FVResult.errors = 0)

C11_Witness ==
    /\ FVDone
    /\ FVKnown
    /\ FVResult.errors > 0
    /\ FVResult.warnings > 0
    /\ ~FVResult.is_valid

\* the row id the validator reports the k-th row under
FVRowId(k) == RowId(fv_rows, fv_rows[k])

\* the k-th row is the only row of the feed reported under its row id
OwnRowId(k) == \A j \in 1..Len(fv_rows) : j # k => FVRowId(j) # FVRowId(k)

\* how many issues of the severity the result holds for a field of the k-th row
NumFor(k, field, severity) ==
    Cardinality({ i \in 1..Len(FVResult.issues) :
                    /\ FVResult.issues[i].row_id = FVRowId(k)
                    /\ FVResult.issues[i].field = field
                    /\ FVResult.issues[i].severity = severity })

HeadlineNames == { headline_fields[i] : i \in 1..Len(headline_fields) }

\* the k-th row holds the headline field with a text of exactly the platform's
\* max_headline_length
HeadlineAtMax(k, field) ==
    /\ field \in DOMAIN fv_rows[k]
    /\ Len(fv_rows[k][field]) = PLATFORM_CONSTRAINTS[fv_platform].max_headline_length

\* C12 as stated: a headline field whose text is exactly max_headline_length
\* long produces no issue for that field, on every known platform.
C12_NoIssueAtMax ==
    (FVDone /\ FVKnown) =>
        \A k \in 1..Len(fv_rows) : \A field \in HeadlineNames :
            (OwnRowId(k) /\ HeadlineAtMax(k, field)) =>
                /\ NumFor(k, field, "error") = 0
                /\ NumFor(k, field, "warning") = 0

\* C12 as the code has it: a headline field whose text is exactly
\* max_headline_length long produces no error and exactly one warning for
\* that field, on every known platform.
C12_WarningAtMax ==
    (FVDone /\ FVKnown) =>
        \A k \in 1..Len(fv_rows) : \A field \in HeadlineNames :
            (OwnRowId(k) /\ HeadlineAtMax(k, field)) =>
                /\ NumFor(k, field, "error") = 0
                /\ NumFor(k, field, "warning") = 1

C12_Witness ==
    /\ FVDone
    /\ FVKnown
    /\ \E k \in 1..Len(fv_rows) :
          /\ OwnRowId(k)
          /\ HeadlineAtMax(k, "copy_slot_a_text")
          /\ NumFor(k, "copy_slot_a_text", "warning") = 1

\* the text fields and the limit each is held to
TextLimits ==
    LET c == PLATFORM_CONSTRAINTS[fv_platform]
    IN  [ f \in HeadlineNames |-> c.max_headline_length ]
        @@ [ f \in { body_fields[i] : i \in 1..Len(body_fields) } |-> c.max_body_length ]
        @@ [ f \in { cta_fields[i] : i \in 1..Len(cta_fields) } |-> c.max_cta_length ]

\* C13: for a text field of limit M and a text of length L: L > M gives the
\* field exactly one error and no warning; 0.9*M < L < M gives it exactly one
\* warning and no error; 0 < L <= 0.9*M gives it no issue.
C13_LengthThresholds ==
    (FVDone /\ FVKnown) =>
        \A k \in 1..Len(fv_rows) : \A field \in DOMAIN TextLimits :
            (OwnRowId(k) /\ field \in DOMAIN fv_rows[k]) =>
                LET L == Len(fv_rows[k][field])
                    M == TextLimits[field]
                    E == NumFor(k, field, "error")
                    W == NumFor(k, field, "warning")
                IN  /\ L > M => (E = 1 /\ W = 0)
                    /\ (10 * L > 9 * M /\ L < M) => (E = 0 /\ W = 1)
                    /\ (0 < L /\ 10 * L <= 9 * M) => (E = 0 /\ W = 0)

C13_Witness ==
    /\ FVDone
    /\ FVKnown
    /\ \E k \in 1..Len(fv_rows) :
          /\ OwnRowId(k)
          /\ "headline" \in DOMAIN fv_rows[k]
          /\ Len(fv_rows[k]["headline"]) > TextLimits["headline"]
          /\ NumFor(k, "headline", "error") = 1
    /\ \E k \in 1..Len(fv_rows) :
          /\ OwnRowId(k)
          /\ "cta" \in DOMAIN fv_rows[k]
          /\ Len(fv_rows[k]["cta"]) < TextLimits["cta"]
          /\ NumFor(k, "cta", "warning") = 1

\* C14: for a platform that is not known, the result has is_valid false,
\* errors 1, warnings 0 and exactly one issue, an error on the field
\* 'platform'; no row is checked.
C14_UnknownPlatform ==
    (FVDone /\ ~FVKnown) =>
        /\ FVResult.is_valid = FALSE
        /\ FVResult.errors = 1
        /\ FVResult.warnings = 0
        /\ Len(FVResult.issues) = 1
        /\ FVResult.issues[1].severity = "error"
        /\ FVResult.issues[1].field = "platform"
        /\ FVResult.total_rows = Len(fv_rows)

C14_Witness ==
    /\ FVDone
    /\ ~FVKnown
    /\ Len(fv_rows) = 2
    /\ fv_rows[1] # FullRow
    /\ Len(FVResult.issues) = 1

\* the text before the first '?': the URL without its query string
WithoutQuery(url) == SplitFirst(url, "?")

\* the extension of the file name: the text after the last '.' of the URL
\* without its query string, lower-cased
PathExtension(url) == Lower(SplitLast(WithoutQuery(url), "."))

ImageNames == { image_fields[i] : i \in 1..Len(image_fields) }

\* C15: an image URL gets a warning, never an error, exactly when the
\* extension of its file name (after the last '.' of the path, query string
\* removed, lower-cased) is not an allowed format of the platform; for every
\* URL, those whose query string contains a '.' included.
C15_ExtensionOfPath ==
    (FVDone /\ FVKnown) =>
        \A k \in 1..Len(fv_rows) : \A field \in ImageNames :
            (OwnRowId(k) /\ field \in DOMAIN fv_rows[k] /\ fv_rows[k][field] # <<>>) =>
                /\ NumFor(k, field, "error") = 0
                /\ NumFor(k, field, "warning") =
                      IF InSeq(PathExtension(fv_rows[k][field]),
                               PLATFORM_CONSTRAINTS[fv_platform].image_formats)
                      THEN 0 ELSE 1


-----------------------------------------------------------------------------
(* Platform export (services/platform_export.py, api/module_routes.py)     *)
(*                                                                         *)
(* An ExportRow is a record; its modules are a dict of dicts whose values  *)
(* are optional texts.  A CSV export is the text the csv writer produces,  *)
(* token by token (',' '"' and the line ends are tokens of their own).  A  *)
(* JSON export is the document json.dumps writes, kept as its tree: the    *)
(* indentation of the rendering is left out, the values, keys, key order   *)
(* and nulls are not.                                                      *)

\* longest list of rows handed to an export
MaxExportRows == 2
\* longest list of decision rules handed to an export
MaxRules == 2

FLASHTALKING_COLUMNS ==
    <<"Creative ID", "Creative Name", "Version", "Audience", "Placement",
      "Headline", "Body Copy", "CTA", "Image 1 URL", "Image 2 URL",
      "Video URL", "Logo URL", "Background Color", "Font Color",
      "Click URL", "Impression Tracker", "Click Tracker">>

INNOVID_COLUMNS ==
    <<"creative_id", "creative_name", "version_id", "audience_segment",
      "placement_id", "headline", "description", "cta_text",
      "primary_asset_url", "secondary_asset_url", "logo_url",
      "background_color", "text_color", "click_through_url">>

CELTRA_COLUMNS ==
    <<"feedId", "creativeName", "variantName", "audienceId",
      "placementId", "headline", "subhead", "ctaLabel",
      "heroImage", "logoImage", "backgroundColor", "textColor",
      "clickUrl", "customData">>

STORYTEQ_COLUMNS ==
    <<"template_id", "output_name", "variant", "audience",
      "headline", "body", "cta", "image_1", "image_2",
      "logo", "background", "font_color", "destination_url">>

GOOGLE_STUDIO_COLUMNS ==
    <<"Creative Name", "Reporting Label", "Exit URL", "Audience ID",
      "Headline", "Description Line 1", "Description Line 2", "CTA Text",
      "Image Asset 1", "Image Asset 2", "Video Asset", "Logo Asset",
      "Primary Color", "Secondary Color">>

(* csv.DictWriter, excel dialect *)

\* the characters that end a line
IsLineEnd(t) == t = "\r\n" \/ t = "\n" \/ t = "\r"

\* QUOTE_MINIMAL: a field is quoted when it holds the delimiter, the quote
\* character or a character of the line terminator
NeverQuote(field) == FALSE
NeedsQuote(field) ==
    \E i \in 1..Len(field) : field[i] = "," \/ field[i] = "\"" \/ IsLineEnd(field[i])

\* a quote character inside a quoted field is written twice
RECURSIVE DoubleQuotes(_)
DoubleQuotes(field) ==
    IF field = <<>> THEN <<>>
    ELSE (IF field[1] = "\"" THEN <<"\"", "\"">> ELSE <<field[1]>>)
         \o DoubleQuotes(Tail(field))

\* one value as the writer writes it; None is written as the empty field
CsvField(value) ==
    LET field == IF value = None THEN <<>> ELSE Val(value)
    IN  IF NeedsQuote(field) THEN <<"\"">> \o DoubleQuotes(field) \o <<"\"">>
        ELSE field

\* writer.writerow: the values in the order of fieldnames, ',' between them,
\* "\r\n" after the last
CsvLine(values) ==
    Join([i \in 1..Len(values) |-> CsvField(values[i])], <<",">>) \o <<"\r\n">>

\* writer.writeheader
CsvHeader(fieldnames) == CsvLine([i \in 1..Len(fieldnames) |-> Some(<<fieldnames[i]>>)])

(* json.dumps *)

JNull == [t |-> "null"]
JStr(text) == [t |-> "string", v |-> text]
JBool(b) == [t |-> "boolean", v |-> b]
JNum(n) == [t |-> "number", v |-> n]
JArr(items) == [t |-> "array", v |-> items]
\* members: a list of <<key, value>> in the insertion order of the dict
JObj(members) == [t |-> "object", v |-> members]

\* an Optional[str] as json.dumps writes it: None becomes null
JOpt(value) == IF value = None THEN JNull ELSE JStr(Val(value))


(* The generators *)

\* the reading of the clock, datetime.now().isoformat()
Now == <<"2026-01-01T00:00:00">>

\* row.modules or {}
ModulesOrEmpty(row) == row.modules

\* modules.get(module, {}).get(attr, default)
ModGet(modules, module, attr, default) ==
    IF module \in DOMAIN modules /\ attr \in DOMAIN modules[module]
    THEN modules[module][attr]
    ELSE default

Empty == Some(<<>>)

\* modules.get("hook", {}).get("asset_url", "")
\*     if modules.get("hook", {}).get("format") == "video" else other
HookVideo(modules, other) ==
    IF ModGet(modules, "hook", "format", None) = Some(<<"video">>)
    THEN ModGet(modules, "hook", "asset_url", Empty)
    ELSE other

\* the csv_row of generate_flashtalking_export, in the order of the columns
FlashtalkingRow(row) ==
    LET modules == ModulesOrEmpty(row)
    IN  << Some(row.creative_id),
           Some(row.creative_name),
           Some(row.row_id),
           OrS(OrS(row.audience_name, row.audience_id), Empty),
           OrS(OrS(row.placement_name, row.placement_id), Empty),
           OrS(ModGet(modules, "hook", "text", Empty),
               ModGet(modules, "value_prop", "text", Empty)),
           OrS(ModGet(modules, "value_prop", "text", Empty),
               ModGet(modules, "proof_point", "text", Empty)),
           ModGet(modules, "cta", "text", Empty),
           OrS(ModGet(modules, "product", "asset_url", Empty),
               ModGet(modules, "background", "asset_url", Empty)),
           ModGet(modules, "proof_point", "asset_url", Empty),
           HookVideo(modules, Empty),
           ModGet(modules, "logo", "asset_url", Empty),
           ModGet(modules, "background", "color", Some(<<"#FFFFFF">>)),
           ModGet(modules, "value_prop", "color", Some(<<"#000000">>)),
           OrS(row.destination_url, Empty),
           Empty,
           Empty >>

StoryteqRow(row) ==
    LET modules == ModulesOrEmpty(row)
    IN  << Some(row.creative_id),
           Some(row.creative_name),
           Some(row.row_id),
           OrS(OrS(row.audience_name, row.audience_id), Some(<<"Default">>)),
           ModGet(modules, "hook", "text", Empty),
           ModGet(modules, "value_prop", "text", Empty),
           ModGet(modules, "cta", "text", Empty),
           ModGet(modules, "product", "asset_url", Empty),
           ModGet(modules, "proof_point", "asset_url", Empty),
           ModGet(modules, "logo", "asset_url", Empty),
           ModGet(modules, "background", "color", Some(<<"#FFFFFF">>)),
           ModGet(modules, "value_prop", "color", Some(<<"#000000">>)),
           OrS(row.destination_url, Empty) >>

GoogleStudioRow(row) ==
    LET modules == ModulesOrEmpty(row)
    IN  << Some(row.creative_name),
           Some(Val(OrS(row.audience_name, Some(<<"Default">>))) \o <<"_">>
                \o Val(OrS(row.placement_name, Some(<<"All">>)))),
           OrS(row.destination_url, Empty),
           OrS(row.audience_id, Empty),
           ModGet(modules, "hook", "text", Empty),
           ModGet(modules, "value_prop", "text", Empty),
           ModGet(modules, "proof_point", "text", Empty),
           ModGet(modules, "cta", "text", Empty),
           ModGet(modules, "product", "asset_url", Empty),
           ModGet(modules, "background", "asset_url", Empty),
           HookVideo(modules, Empty),
           ModGet(modules, "logo", "asset_url", Empty),
           ModGet(modules, "background", "color", Some(<<"#FFFFFF">>)),
           ModGet(modules, "value_prop", "color", Some(<<"#000000">>)) >>

\* output.getvalue(): the header, then writer.writerow for each row in order
CsvContent(fieldnames, csv_rows) ==
    CsvHeader(fieldnames) \o Flatten([i \in 1..Len(csv_rows) |-> CsvLine(csv_rows[i])])

ExportResult(format, content, filename, row_count) ==
    [ format |-> format, content |-> content, filename |-> filename,
      row_count |-> row_count ]

generate_flashtalking_export(rows, rules, campaign_name) ==
    ExportResult("csv",
        CsvContent(FLASHTALKING_COLUMNS, [i \in 1..Len(rows) |-> FlashtalkingRow(rows[i])]),
        campaign_name \o <<"_", "flashtalking", "_feed.", "csv">>,
        Len(rows))

generate_storyteq_export(rows, rules, campaign_name) ==
    ExportResult("csv",
        CsvContent(STORYTEQ_COLUMNS, [i \in 1..Len(rows) |-> StoryteqRow(rows[i])]),
        campaign_name \o <<"_", "storyteq", "_feed.", "csv">>,
        Len(rows))

generate_google_studio_export(rows, rules, campaign_name) ==
    ExportResult("csv",
        CsvContent(GOOGLE_STUDIO_COLUMNS, [i \in 1..Len(rows) |-> GoogleStudioRow(rows[i])]),
        campaign_name \o <<"_", "google_studio", "_feed.", "csv">>,
        Len(rows))

\* one entry of innovid_data["creatives"]
InnovidCreative(row) ==
    LET modules == ModulesOrEmpty(row)
    IN  JObj(<<
          <<"creative_id", JStr(row.creative_id)>>,
          <<"creative_name", JStr(row.creative_name)>>,
          <<"version_id", JStr(row.row_id)>>,
          <<"targeting", JObj(<<
              <<"audience_segment", JOpt(row.audience_id)>>,
              <<"audience_name", JOpt(row.audience_name)>>,
              <<"placement_id", JOpt(row.placement_id)>>,
              <<"placement_name", JOpt(row.placement_name)>>,
              <<"geo", JOpt(row.geo_targeting)>> >>)>>,
          <<"content", JObj(<<
              <<"headline", JOpt(OrS(ModGet(modules, "hook", "text", Empty),
                                     ModGet(modules, "value_prop", "text", Empty)))>>,
              <<"description", JOpt(ModGet(modules, "value_prop", "text", Empty))>>,
              <<"cta_text", JOpt(ModGet(modules, "cta", "text", Empty))>> >>)>>,
          <<"assets", JObj(<<
              <<"primary_asset_url", JOpt(ModGet(modules, "product", "asset_url", Empty))>>,
              <<"secondary_asset_url", JOpt(ModGet(modules, "proof_point", "asset_url", Empty))>>,
              <<"logo_url", JOpt(ModGet(modules, "logo", "asset_url", Empty))>>,
              <<"video_url", JOpt(HookVideo(modules, None))>> >>)>>,
          <<"styling", JObj(<<
              <<"background_color", JOpt(ModGet(modules, "background", "color", Some(<<"#FFFFFF">>)))>>,
              <<"text_color", JOpt(ModGet(modules, "value_prop", "color", Some(<<"#000000">>)))>> >>)>>,
          <<"tracking", JObj(<<
              <<"click_through_url", JOpt(row.destination_url)>>,
              <<"utm_params", JOpt(row.utm_params)>> >>)>>,
          <<"metadata", JObj(<<
              <<"funnel_stage", JOpt(row.funnel_stage)>>,
              <<"is_default", JBool(row.is_default)>>,
              <<"rules_applied",
                JArr([i \in 1..Len(row.rules_applied) |-> JStr(row.rules_applied[i])])>>,
              <<"production_job_id", JOpt(row.production_job_id)>> >>)>> >>)

\* one entry of innovid_data["decisioning"]["rules"]
InnovidRule(rule) ==
    JObj(<<
      <<"id", JStr(rule.id)>>,
      <<"name", JStr(rule.name)>>,
      <<"priority", JNum(rule.priority)>>,
      <<"conditions",
        JArr([i \in 1..Len(rule.conditions) |->
                JObj(<< <<"type", JStr(<<rule.conditions[i].type>>)>>,
                        <<"operator", JStr(<<rule.conditions[i].operator>>)>>,
                        <<"value", JStr(rule.conditions[i].value)>> >>)])>>,
      <<"condition_logic", JStr(<<rule.condition_logic>>)>>,
      <<"action", JObj(<<
          <<"module_type", JStr(<<rule.action.module_type>>)>>,
          <<"module_id", JStr(rule.action.module_id)>>,
          <<"variation_id", JStr(rule.action.variation_id)>> >>)>> >>)

\* [... for rule in rules if rule.is_active]
AllRules(rules) == rules
ActiveRules(rules) == SelectSeq(rules, LAMBDA rule : rule.is_active)

generate_innovid_export(rows, rules, campaign_name) ==
    ExportResult("json",
        JObj(<< <<"campaign", JStr(campaign_name)>>,
                <<"exported_at", JStr(Now)>>,
                <<"creatives", JArr([i \in 1..Len(rows) |-> InnovidCreative(rows[i])])>> >>
             \o (IF rules # <<>>
                 THEN << <<"decisioning", JObj(<<
                            <<"rules",
                              JArr([i \in 1..Len(ActiveRules(rules)) |->
                                      InnovidRule(ActiveRules(rules)[i])])>> >>)>> >>
                 ELSE <<>>)),
        campaign_name \o <<"_", "innovid", "_feed.", "json">>,
        Len(rows))

\* one entry of celtra_data["items"]
CeltraItem(row) ==
    LET modules == ModulesOrEmpty(row)
    IN  JObj(<<
          <<"feedId", JStr(row.row_id)>>,
          <<"creativeName", JStr(row.creative_name)>>,
          <<"variantName", JStr(Val(OrS(row.audience_name, Some(<<"Default">>))) \o <<" - ">>
                                \o Val(OrS(row.placement_name, Some(<<"All">>))))>>,
          <<"audienceId", JOpt(row.audience_id)>>,
          <<"audienceName", JOpt(row.audience_name)>>,
          <<"placementId", JOpt(row.placement_id)>>,
          <<"headline", JOpt(ModGet(modules, "hook", "text", Empty))>>,
          <<"subhead", JOpt(ModGet(modules, "value_prop", "text", Empty))>>,
          <<"ctaLabel", JOpt(ModGet(modules, "cta", "text", Empty))>>,
          <<"heroImage", JOpt(ModGet(modules, "product", "asset_url", Empty))>>,
          <<"logoImage", JOpt(ModGet(modules, "logo", "asset_url", Empty))>>,
          <<"backgroundColor", JOpt(ModGet(modules, "background", "color", Some(<<"#FFFFFF">>)))>>,
          <<"textColor", JOpt(ModGet(modules, "value_prop", "color", Some(<<"#000000">>)))>>,
          <<"clickUrl", JOpt(row.destination_url)>>,
          <<"customData", JObj(<<
              <<"funnel_stage", JOpt(row.funnel_stage)>>,
              <<"concept_id", JOpt(row.concept_id)>>,
              <<"production_job_id", JOpt(row.production_job_id)>> >>)>> >>)

generate_celtra_export(rows, rules, campaign_name) ==
    ExportResult("json",
        JObj(<< <<"feedName", JStr(campaign_name \o <<" Feed">>)>>,
                <<"exportedAt", JStr(Now)>>,
                <<"items", JArr([i \in 1..Len(rows) |-> CeltraItem(rows[i])])>> >>),
        campaign_name \o <<"_", "celtra", "_feed.", "json">>,
        Len(rows))


(* generate_platform_export and the export route *)

PlatformIds ==
    { "flashtalking", "innovid", "clinch", "celtra", "storyteq",
      "google_studio", "sizmek", "jivox", "adform" }

\* platform_formats: the feed format and the generator of each platform
platform_formats ==
    [ flashtalking  |-> [format |-> "csv",  generator |-> "flashtalking"],
      innovid       |-> [format |-> "json", generator |-> "innovid"],
      celtra        |-> [format |-> "json", generator |-> "celtra"],
      storyteq      |-> [format |-> "csv",  generator |-> "storyteq"],
      google_studio |-> [format |-> "csv",  generator |-> "google_studio"],
      clinch        |-> [format |-> "csv",  generator |-> "flashtalking"],
      sizmek        |-> [format |-> "csv",  generator |-> "flashtalking"],
      jivox         |-> [format |-> "json", generator |-> "innovid"],
      adform        |-> [format |-> "csv",  generator |-> "flashtalking"] ]

\* generators: the table of the export route
generators ==
    [ flashtalking  |-> "flashtalking",
      innovid       |-> "innovid",
      celtra        |-> "celtra",
      storyteq      |-> "storyteq",
      google_studio |-> "google_studio",
      clinch        |-> "flashtalking",
      sizmek        |-> "flashtalking",
      jivox         |-> "innovid",
      adform        |-> "flashtalking" ]

\* generator_func(rows, rules, campaign_name)
CallGenerator(generator, rows, rules, campaign_name) ==
    CASE generator = "flashtalking"  -> generate_flashtalking_export(rows, rules, campaign_name)
      [] generator = "innovid"       -> generate_innovid_export(rows, rules, campaign_name)
      [] generator = "celtra"        -> generate_celtra_export(rows, rules, campaign_name)
      [] generator = "storyteq"      -> generate_storyteq_export(rows, rules, campaign_name)
      [] generator = "google_studio" -> generate_google_studio_export(rows, rules, campaign_name)

\* the validation_errors the i-th row (counted from 1) adds
RowErrorsAlsoModules(i, row) ==
    (IF row.creative_id = <<>>
     THEN << <<"Row ">> \o IntStr(i) \o <<": Missing creative_id">> >> ELSE <<>>)
    \o (IF row.creative_name = <<>>
        THEN << <<"Row ">> \o IntStr(i) \o <<": Missing creative_name">> >> ELSE <<>>)
    \o (IF DOMAIN row.modules = {}
        THEN << <<"Row ">> \o IntStr(i) \o <<": No modules defined">> >> ELSE <<>>)
RowErrors(i, row) ==
    (IF row.creative_id = <<>>
     THEN << <<"Row ">> \o IntStr(i) \o <<": Missing creative_id">> >> ELSE <<>>)
    \o (IF row.creative_name = <<>>
        THEN << <<"Row ">> \o IntStr(i) \o <<": Missing creative_name">> >> ELSE <<>>)

\* the warnings the i-th row (counted from 1) adds
RowWarnings(i, row) ==
    IF DOMAIN row.modules = {}
    THEN << <<"Row ">> \o IntStr(i) \o <<": No modules defined">> >> ELSE <<>>

\* the PlatformExport returned; every PlatformId is a key of platform_formats,
\* so the ValueError of line 346 is never raised
generate_platform_export(platform, rows, rules, campaign_name) ==
    LET validation_errors == Flatten([i \in 1..Len(rows) |-> RowErrors(i, rows[i])])
        warnings == Flatten([i \in 1..Len(rows) |-> RowWarnings(i, rows[i])])
    IN  [ platform |-> platform,
          export_format |-> platform_formats[platform].format,
          exported_at |-> Now,
          rows |-> rows,
          decisioning_rules |-> rules,
          total_rows |-> Len(rows),
          validation_passed |-> (Len(validation_errors) = 0),
          validation_errors |-> validation_errors,
          warnings |-> warnings,
          campaign_name |-> Some(campaign_name) ]

\* concept_map.get(row_id) if concept_map else None; a map is None or a dict
MapGet(map, row_id) ==
    IF map = None \/ DOMAIN Val(map) = {} THEN None
    ELSE IF row_id \in DOMAIN Val(map) THEN Some(Val(map)[row_id]) ELSE None

\* the ExportRow built from one AssetFeedRow
ConvertRow(feed_row, concept_map, production_job_map) ==
    [ row_id |-> feed_row.row_id,
      creative_id |-> IF feed_row.creative_filename # <<>>
                      THEN SplitFirst(feed_row.creative_filename, ".")
                      ELSE feed_row.row_id,
      creative_name |-> IF feed_row.reporting_label # <<>>
                        THEN feed_row.reporting_label
                        ELSE feed_row.creative_filename,
      modules |->
          [ hook        |-> [text |-> feed_row.copy_slot_a_text,
                             asset_url |-> feed_row.asset_slot_a_path],
            value_prop  |-> [text |-> feed_row.copy_slot_b_text,
                             asset_url |-> feed_row.asset_slot_b_path],
            proof_point |-> [text |-> feed_row.copy_slot_c_text,
                             asset_url |-> feed_row.asset_slot_c_path],
            cta         |-> [text |-> feed_row.cta_button_text],
            logo        |-> [asset_url |-> feed_row.logo_asset_path],
            background  |-> [color |-> feed_row.background_color_hex],
            legal       |-> [text |-> feed_row.legal_disclaimer_text] ],
      audience_id |-> feed_row.audience_id,
      audience_name |-> None,
      funnel_stage |-> None,
      placement_id |-> Some(feed_row.platform_id),
      placement_name |-> Some(feed_row.placement_dimension),
      geo_targeting |-> feed_row.geo_targeting,
      rules_applied |-> <<>>,
      is_default |-> feed_row.is_default,
      dimensions |-> Some(feed_row.placement_dimension),
      format |-> Some(feed_row.asset_format_type),
      destination_url |-> feed_row.destination_url,
      utm_params |-> feed_row.utm_suffix,
      production_job_id |-> MapGet(production_job_map, feed_row.row_id),
      concept_id |-> MapGet(concept_map, feed_row.row_id) ]

convert_feed_rows_to_export_rows(feed_rows, concept_map, production_job_map) ==
    [i \in 1..Len(feed_rows) |-> ConvertRow(feed_rows[i], concept_map, production_job_map)]

\* the DecisionRule list the route builds from request.rules; every rule of
\* the request carries all its keys
ParseRules(rules) ==
    [i \in 1..Len(rules) |->
        [ id |-> rules[i].id,
          name |-> rules[i].name,
          priority |-> rules[i].priority,
          conditions |-> [k \in 1..Len(rules[i].conditions) |->
                            [ type |-> rules[i].conditions[k].type,
                              operator |-> rules[i].conditions[k].operator,
                              value |-> rules[i].conditions[k].value ]],
          condition_logic |-> rules[i].condition_logic,
          action |-> [ module_type |-> rules[i].action.module_type,
                       module_id |-> rules[i].action.module_id,
                       variation_id |-> rules[i].action.variation_id ],
          is_active |-> rules[i].is_active ]]


(* Requests handed to the export *)

NoFeedRow ==
    [ row_id |-> <<"r1">>, creative_filename |-> <<"hero", ".", "png">>,
      reporting_label |-> <<"Hero">>, is_default |-> FALSE,
      asset_slot_a_path |-> None, asset_slot_b_path |-> None,
      asset_slot_c_path |-> None, logo_asset_path |-> None,
      copy_slot_a_text |-> None, copy_slot_b_text |-> None,
      copy_slot_c_text |-> None, legal_disclaimer_text |-> None,
      cta_button_text |-> None, background_color_hex |-> None,
      platform_id |-> <<"meta">>, placement_dimension |-> <<"1x1">>,
      asset_format_type |-> <<"image">>,
      audience_id |-> None, geo_targeting |-> None,
      destination_url |-> None, utm_suffix |-> None ]

FeedRowPool ==
    { NoFeedRow,
      [NoFeedRow EXCEPT !.row_id = <<"r2">>,
                        !.copy_slot_a_text = Some(<<"Buy", ",", " now">>),
                        !.copy_slot_b_text = Some(<<"Line", "\n", "two">>),
                        !.cta_button_text = Some(<<"Go">>),
                        !.asset_slot_a_path = Some(<<"https://", "cdn", "/", "a.jpg">>),
                        !.logo_asset_path = Some(<<"https://", "cdn", "/", "logo.png">>),
                        !.background_color_hex = Some(<<"#112233">>),
                        !.audience_id = Some(<<"aud1">>),
                        !.destination_url = Some(<<"https://", "x", "/", "lp">>),
                        !.is_default = TRUE],
      [NoFeedRow EXCEPT !.row_id = <<"r3">>,
                        !.creative_filename = <<>>,
                        !.reporting_label = <<>>,
                        !.copy_slot_a_text = Some(<<>>)] }

\* an ExportRow with nothing but its three required texts
NoExportRow ==
    [ row_id |-> <<"e1">>, creative_id |-> <<"c1">>, creative_name |-> <<"n1">>,
      modules |-> <<>>,
      audience_id |-> None, audience_name |-> None, funnel_stage |-> None,
      placement_id |-> None, placement_name |-> None, geo_targeting |-> None,
      rules_applied |-> <<>>, is_default |-> FALSE,
      dimensions |-> None, format |-> None,
      destination_url |-> None, utm_params |-> None,
      production_job_id |-> None, concept_id |-> None ]

ExportRowPool ==
    { NoExportRow,
      [NoExportRow EXCEPT !.row_id = <<"e2">>,
          !.modules = [ hook |-> [ text |-> Some(<<"Say ", "\"", "hi", "\"">>),
                                   asset_url |-> Some(<<"https://", "cdn", "/", "v.mp4">>),
                                   format |-> Some(<<"video">>) ],
                        cta  |-> [ text |-> Some(<<>>) ] ],
          !.audience_name = Some(<<"Moms">>),
          !.placement_name = Some(<<"Feed">>),
          !.funnel_stage = Some(<<"awareness">>),
          !.rules_applied = << <<"rule1">> >>,
          !.is_default = TRUE],
      [NoExportRow EXCEPT !.row_id = <<"e3">>,
          !.creative_name = <<>>,
          !.modules = [ background |-> [ color |-> Some(<<"#ABCDEF">>),
                                         asset_url |-> Some(<<"https://", "cdn", "/", "bg.png">>) ],
                        value_prop |-> [ text |-> Some(<<"Soft">>),
                                         color |-> Some(<<"#101010">>) ],
                        product    |-> [ asset_url |-> Some(<<"https://", "cdn", "/", "p.png">>) ],
                        proof_point |-> [ text |-> Some(<<"5 stars">>) ] ],
          !.audience_id = Some(<<"aud3">>),
          !.destination_url = Some(<<"https://", "x", "/", "lp">>)],
      [NoExportRow EXCEPT !.row_id = <<"e4">>,
          !.creative_id = <<>>,
          !.modules = [ hook |-> [ text |-> Some(<<"Hi">>) ] ]] }

RulePool ==
    { [ id |-> <<"rule1">>, name |-> <<"Moms first">>, priority |-> 100,
        conditions |-> << [type |-> "audience", operator |-> "equals", value |-> <<"moms">>] >>,
        condition_logic |-> "AND",
        action |-> [module_type |-> "hook", module_id |-> <<"m1">>, variation_id |-> <<"v1">>],
        is_active |-> TRUE ],
      [ id |-> <<"rule2">>, name |-> <<"Rain">>, priority |-> 50,
        conditions |-> << [type |-> "weather", operator |-> "contains", value |-> <<"rain">>],
                          [type |-> "geo", operator |-> "not_equals", value |-> <<"US">>] >>,
        condition_logic |-> "OR",
        action |-> [module_type |-> "cta", module_id |-> <<"m2">>, variation_id |-> <<"v2">>],
        is_active |-> FALSE ] }

CampaignNames == { <<"Q3">>, <<"Summer", " ", "Sale">> }

\* request.concept_map and request.production_job_map
TheConceptMap == Some(<<"r1">> :> <<"concept9">>)
TheJobMap == None

PXInit ==
    /\ px_platform \in PlatformIds
    /\ px_campaign \in CampaignNames
    /\ px_rules \in SeqsUpTo(RulePool, MaxRules)
    /\ \/ /\ px_op = "request"
          /\ px_feed_rows \in SeqsUpTo(FeedRowPool, MaxExportRows)
          /\ px_rows = <<>>
       \/ /\ px_op = "call"
          /\ px_feed_rows = <<>>
          /\ px_rows \in SeqsUpTo(ExportRowPool, MaxExportRows)
    /\ px_export = None
    /\ px_result = None

\* POST /export: convert the feed rows, parse the rules, validate and generate
ExportToPlatform ==
    /\ px_op = "request"
    /\ LET export_rows == convert_feed_rows_to_export_rows(px_feed_rows, TheConceptMap, TheJobMap)
           rules == IF px_rules # <<>> THEN ParseRules(px_rules) ELSE <<>>
       IN  /\ px_rows' = export_rows
           /\ px_export' = Some(generate_platform_export(px_platform, export_rows, rules, px_campaign))
           /\ px_result' = Some(CallGenerator(generators[px_platform], export_rows, rules, px_campaign))
    /\ px_op' = "exported"
    /\ UNCHANGED <<px_platform, px_campaign, px_feed_rows, px_rules>>

\* one call of generate_platform_export on export rows; px_result is the
\* export_result its generator returned
GeneratePlatformExport ==
    /\ px_op = "call"
    /\ px_export' = Some(generate_platform_export(px_platform, px_rows, px_rules, px_campaign))
    /\ px_result' = Some(CallGenerator(platform_formats[px_platform].generator,
                                       px_rows, px_rules, px_campaign))
    /\ px_op' = "generated"
    /\ UNCHANGED <<px_platform, px_campaign, px_feed_rows, px_rows, px_rules>>

InitPX == PXInit /\ MBIdle /\ PlanIdle /\ FVIdle /\ LateIdle
NextPX ==
    \/ ExportToPlatform /\ UNCHANGED <<mbVars, planVars, fvVars, lateVars>>
    \/ GeneratePlatformExport /\ UNCHANGED <<mbVars, planVars, fvVars, lateVars>>
SpecPX == InitPX /\ [][NextPX]_vars


-----------------------------------------------------------------------------
(* Properties of the platform export *)

PXDone == px_result # None
PXResult == Val(px_result)
PXExport == Val(px_export)
PXN == Len(px_rows)

\* the generator the platform is served by, and the columns it declares
PXGenerator == platform_formats[px_platform].generator
PXCsv == platform_formats[px_platform].format = "csv"
DeclaredColumns ==
    CASE PXGenerator = "flashtalking"  -> FLASHTALKING_COLUMNS
      [] PXGenerator = "innovid"       -> INNOVID_COLUMNS
      [] PXGenerator = "celtra"        -> CELTRA_COLUMNS
      [] PXGenerator = "storyteq"      -> STORYTEQ_COLUMNS
      [] PXGenerator = "google_studio" -> GOOGLE_STUDIO_COLUMNS

\* the values of the k-th row under the columns of a CSV platform
CsvValues(k) ==
    CASE PXGenerator = "flashtalking"  -> FlashtalkingRow(px_rows[k])
      [] PXGenerator = "storyteq"      -> StoryteqRow(px_rows[k])
      [] PXGenerator = "google_studio" -> GoogleStudioRow(px_rows[k])

\* a value as a text: None is the empty text
TextOfValue(value) == IF value = None THEN <<>> ELSE Val(value)

\* the number of lines of a text: the number of its line ends
NumLines(content) == Cardinality({ i \in 1..Len(content) : IsLineEnd(content[i]) })

\* the members of a set of numbers in increasing order
Sorted(S) == [k \in 1..Cardinality(S) |-> CHOOSE x \in S : Cardinality({y \in S : y < x}) = k - 1]

\* position i of a CSV text is outside quotes: an even number of quote
\* characters precedes it (a quote inside a quoted field is written twice)
Outside(s, i) == Cardinality({ j \in 1..(i - 1) : s[j] = "\"" }) % 2 = 0

\* the pieces of s[a..b] between the positions of cuts, in order
Pieces(s, a, b, cuts) ==
    LET at == Sorted(cuts)
        n == Len(at)
    IN  [k \in 1..(n + 1) |->
            SubSeq(s, IF k = 1 THEN a ELSE at[k - 1] + 1,
                      IF k = n + 1 THEN b ELSE at[k] - 1)]

\* a field as read: the enclosing quotes are dropped and every doubled quote
\* inside them is read as one
ReadField(raw) ==
    IF raw = <<>> \/ raw[1] # "\"" THEN raw
    ELSE LET inner == SubSeq(raw, 2, Len(raw) - 1)
             keep == { j \in 1..Len(inner) : inner[j] # "\"" \/ Outside(inner, j) }
         IN  [k \in 1..Cardinality(keep) |-> inner[Sorted(keep)[k]]]

\* the fields of one record: it is split at the ',' outside quotes
ReadRecord(line) ==
    LET parts == Pieces(line, 1, Len(line),
                        { i \in 1..Len(line) : line[i] = "," /\ Outside(line, i) })
    IN  [k \in 1..Len(parts) |-> ReadField(parts[k])]

\* the records a CSV reader finds in a text the writer wrote: every record
\* ends at a line end outside quotes
Records(content) ==
    LET ends == { i \in 1..Len(content) : IsLineEnd(content[i]) /\ Outside(content, i) }
        lines == Pieces(content, 1, Len(content), ends)
    IN  [k \in 1..Cardinality(ends) |-> ReadRecord(lines[k])]

\* the header and the rows of the content read back: the declared columns in
\* order, then for each input row in order one record with the row's value
\* under every column
RecordPerRow ==
    LET recs == Records(PXResult.content)
    IN  /\ Len(recs) = PXN + 1
        /\ recs[1] = [c \in 1..Len(DeclaredColumns) |-> <<DeclaredColumns[c]>>]
        /\ \A k \in 1..PXN :
              recs[k + 1] = [c \in 1..Len(DeclaredColumns) |-> TextOfValue(CsvValues(k)[c])]

\* C16 as stated: for every CSV platform and N export rows the content has
\* exactly N+1 lines, the header with the declared columns in order and one
\* line per row in input order with a value for every column; row_count is N.
C16_LinePerRow ==
    (PXDone /\ PXCsv) =>
        /\ NumLines(PXResult.content) = PXN + 1
        /\ RecordPerRow
        /\ PXResult.row_count = PXN

\* some value of some row holds a line break
SomeLineBreak ==
    \E k \in 1..PXN : \E c \in 1..Len(DeclaredColumns) :
        \E i \in 1..Len(TextOfValue(CsvValues(k)[c])) :
            IsLineEnd(TextOfValue(CsvValues(k)[c])[i])

\* C16 as the code has it: for every CSV platform and N export rows the
\* content holds exactly N+1 CSV records, the header with the declared
\* columns in order and one record per row in input order with a value for
\* every column; row_count is N; the records are N+1 lines when no value
\* holds a line break.
C16_RecordPerRow ==
    (PXDone /\ PXCsv) =>
        /\ RecordPerRow
        /\ PXResult.row_count = PXN
        /\ ~SomeLineBreak => NumLines(PXResult.content) = PXN + 1

C16_Witness ==
    /\ PXDone
    /\ PXCsv
    /\ PXN = 2
    /\ SomeLineBreak
    /\ NumLines(PXResult.content) > PXN + 1
    /\ Len(Records(PXResult.content)) = PXN + 1


\* a key that a JSON object does not hold
JAbsent == [t |-> "absent"]

\* obj[key] of a JSON object, JAbsent when the object has no such key
JMember(obj, key) ==
    LET at == { i \in 1..Len(obj.v) : obj.v[i][1] = key }
    IN  IF at = {} THEN JAbsent ELSE obj.v[CHOOSE i \in at : TRUE][2]

\* the value under a key of a JSON object or of one of the objects it holds
JFind(obj, key) ==
    IF JMember(obj, key) # JAbsent THEN JMember(obj, key)
    ELSE LET in == { i \in 1..Len(obj.v) :
                        /\ obj.v[i][2].t = "object"
                        /\ JMember(obj.v[i][2], key) # JAbsent }
         IN  IF in = {} THEN JAbsent ELSE JMember(obj.v[CHOOSE i \in in : TRUE][2], key)

\* the position of a column among the declared columns
ColumnIndex(column) == CHOOSE c \in 1..Len(DeclaredColumns) : DeclaredColumns[c] = column

\* the entry of the export for the k-th row, when the export is JSON
JsonEntry(k) ==
    JMember(PXResult.content,
            IF PXGenerator = "innovid" THEN "creatives" ELSE "items").v[k]

\* what the export holds for the k-th row under a declared column: a JSON
\* value, JAbsent when the column is not there
Rendered(k, column) ==
    IF PXCsv
    THEN LET rec == Records(PXResult.content)[k + 1]
         IN  IF ColumnIndex(column) <= Len(rec) THEN JStr(rec[ColumnIndex(column)])
             ELSE JAbsent
    ELSE JFind(JsonEntry(k), column)

\* the declared columns a generator fills from the modules of the row
ModuleColumns ==
    CASE PXGenerator = "flashtalking" ->
            { "Headline", "Body Copy", "CTA", "Image 1 URL", "Image 2 URL",
              "Video URL", "Logo URL", "Background Color", "Font Color" }
      [] PXGenerator = "innovid" ->
            { "headline", "description", "cta_text", "primary_asset_url",
              "secondary_asset_url", "logo_url", "background_color", "text_color" }
      [] PXGenerator = "celtra" ->
            { "headline", "subhead", "ctaLabel", "heroImage", "logoImage",
              "backgroundColor", "textColor" }
      [] PXGenerator = "storyteq" ->
            { "headline", "body", "cta", "image_1", "image_2", "logo",
              "background", "font_color" }
      [] PXGenerator = "google_studio" ->
            { "Headline", "Description Line 1", "Description Line 2", "CTA Text",
              "Image Asset 1", "Image Asset 2", "Video Asset", "Logo Asset",
              "Primary Color", "Secondary Color" }

\* every module entry of the row, and every attribute of it, is missing or empty
NoModuleContent(row) ==
    \A m \in DOMAIN row.modules : \A a \in DOMAIN row.modules[m] :
        ~StrTruthy(row.modules[m][a])

\* C17: for every generator and every export row, each declared column or
\* key is present in the output, and a column whose module entry or
\* attribute is missing or empty is the empty string, never null and never
\* left out (stated for the rows all of whose module content is missing or
\* empty: every column fed from the modules is then the empty string).
C17_MissingIsEmptyString ==
    PXDone =>
        \A k \in 1..PXN :
            /\ \A c \in 1..Len(DeclaredColumns) :
                  Rendered(k, DeclaredColumns[c]) # JAbsent
            /\ NoModuleContent(px_rows[k]) =>
                  \A column \in ModuleColumns : Rendered(k, column) = JStr(<<>>)

\* the rules of the request as the export is handed them
PXRules == IF px_op = "exported" THEN ParseRules(px_rules) ELSE px_rules

\* the rules with is_active true, in the order supplied
PXActive == SelectSeq(PXRules, LAMBDA rule : rule.is_active)

\* the decisioning entry lists the rule: id, conditions (type, operator,
\* value), combinator and action
ListsRule(entry, rule) ==
    /\ JMember(entry, "id") = JStr(rule.id)
    /\ JMember(entry, "conditions") =
          JArr([i \in 1..Len(rule.conditions) |->
                  JObj(<< <<"type", JStr(<<rule.conditions[i].type>>)>>,
                          <<"operator", JStr(<<rule.conditions[i].operator>>)>>,
                          <<"value", JStr(rule.conditions[i].value)>> >>)])
    /\ JMember(entry, "condition_logic") = JStr(<<rule.condition_logic>>)
    /\ JMember(JMember(entry, "action"), "module_type") = JStr(<<rule.action.module_type>>)
    /\ JMember(JMember(entry, "action"), "module_id") = JStr(rule.action.module_id)
    /\ JMember(JMember(entry, "action"), "variation_id") = JStr(rule.action.variation_id)

\* C18: for every JSON platform (innovid, celtra, jivox), when at least one
\* decision rule is supplied the export holds a decisioning section that
\* lists exactly the supplied rules whose is_active is true, each with its
\* conditions, its combinator and its action; no inactive rule is listed.
C18_ActiveRulesEmbedded ==
    (PXDone /\ ~PXCsv /\ px_rules # <<>>) =>
        LET section == JMember(PXResult.content, "decisioning")
        IN  /\ section # JAbsent
            /\ JMember(section, "rules") # JAbsent
            /\ Len(JMember(section, "rules").v) = Len(PXActive)
            /\ \A i \in 1..Len(PXActive) :
                  ListsRule(JMember(section, "rules").v[i], PXActive[i])

\* C19: for every platform identifier P of the nine and campaign name C, the
\* export for P has the filename '{C}_{P}_feed.{ext}' with ext the declared
\* feed format of P, csv or json.
C19_FilenameNamesPlatform ==
    PXDone =>
        PXResult.filename =
            px_campaign \o <<"_", px_platform, "_feed.", platform_formats[px_platform].format>>

\* the rows with an empty creative_id or an empty creative_name
RowsInError == { k \in 1..PXN : px_rows[k].creative_id = <<>> \/ px_rows[k].creative_name = <<>> }

\* the rows with no module content
RowsBare == { k \in 1..PXN : DOMAIN px_rows[k].modules = {} }

\* C20: generate_platform_export produces the export for any rows of a
\* supported platform; validation_passed is false exactly when some row has
\* an empty creative_id or creative_name; a row with no module content only
\* adds a warning; neither errors nor warnings stop the export.
C20_ValidationNeverBlocks ==
    (px_op \in {"generated", "exported"}) =>
        /\ px_export # None
        /\ px_result # None
        /\ PXResult.row_count = PXN
        /\ PXExport.total_rows = PXN
        /\ PXExport.rows = px_rows
        /\ PXExport.validation_passed = (RowsInError = {})
        /\ Len(PXExport.warnings) = Cardinality(RowsBare)

C20_Witness ==
    /\ px_op = "generated"
    /\ PXN = 2
    /\ RowsBare # {}
    /\ RowsInError = {}
    /\ PXExport.validation_passed
    /\ Len(PXExport.warnings) > 0
    /\ PXResult.row_count = 2

-----------------------------------------------------------------------------
(* Feed validator: issues per row and field *)

\* the field names the issues of the result carry
IssueFields == { FVResult.issues[i].field : i \in 1..Len(FVResult.issues) }

\* how many issues, of any severity, the result holds for a field of the k-th row
NumIssuesFor(k, field) ==
    Cardinality({ i \in 1..Len(FVResult.issues) :
                    /\ FVResult.issues[i].row_id = FVRowId(k)
                    /\ FVResult.issues[i].field = field })

-----------------------------------------------------------------------------
(* Plan generator: assets and their batches *)

\* the batch ids of the assets of a store, in store order
BatchIds(store) == [i \in 1..Len(store) |-> store[i].batch_id]

\* C27: every stored asset has the batch_id of a stored batch, and
\* update_asset_status and get_batch never add or remove a batch or an asset
\* and never change an asset's batch_id.
C27_AssetsKeepTheirBatch ==
    /\ [](\A k \in 1..Len(assets) : HasId(batches, assets[k].batch_id))
    /\ [][ last'.op \in {"update_asset_status", "get_batch"} =>
              /\ batches' = batches
              /\ Ids(assets') = Ids(assets)
              /\ BatchIds(assets') = BatchIds(assets)
         ]_vars

\* two batches with an asset each, after a status write to the asset of the
\* first batch
C27_Witness ==
    /\ last.op = "update_asset_status"
    /\ last.result # None
    /\ Len(batches) = 2
    /\ Len(assets) = 2
    /\ assets[1].batch_id = batches[1].id
    /\ assets[2].batch_id = batches[2].id
    /\ last.asset_id = assets[1].id

-----------------------------------------------------------------------------
(* agent_core.py: _post_json_with_retries                                  *)
(*                                                                         *)
(* One call of the coroutine.  rt_attempt is the loop variable of          *)
(* "for attempt in range(max_retries + 1)", rt_log has one entry per       *)
(* client.post with its outcome and the backoff slept after it (None when  *)
(* the attempt was not followed by a sleep), rt_result is what the call    *)
(* gave its caller.  Durations are in hundredths of a second.  An outcome  *)
(* is a response that raise_for_status accepts, an httpx.HTTPStatusError   *)
(* (which always carries its response), or an httpx.RequestError (connect, *)
(* read and write failures and the client's timeout).                      *)

\* largest max_retries a caller passes
MaxRetriesArg == 3
\* max_retries: int = 2
DefaultMaxRetries == 2
\* backoff_seconds: float = 0.75
BackoffCentis == 75

\* a predicate that takes every status for a transient one
AlwaysRetry(status_code) == TRUE

\* lines 54-55
should_retry(status_code) == status_code \in {408, 429, 500, 502, 503, 504}

\* a guard that also lets the last attempt of the range go on
RetryOnLast(attempt, max_retries) == attempt <= max_retries

\* "attempt < max_retries", lines 75 and 80
retries_left(attempt, max_retries) == attempt < max_retries

RECURSIVE Pow2(_)
Pow2(n) == IF n = 0 THEN 1 ELSE 2 * Pow2(n - 1)

\* backoff_seconds * (2**attempt)
backoff(attempt) == BackoffCentis * Pow2(attempt)

Response(status, text) == [kind |-> "ok", status |-> status, text |-> text, str |-> <<>>]
HTTPStatusError(status, text) ==
    [kind |-> "http", status |-> status, text |-> text,
     str |-> <<"Error response ", IntStr(status)>>]
RequestError(str) == [kind |-> "request", status |-> 0, text |-> <<>>, str |-> str]

\* one pass of the loop body, lines 68-83: what the attempt leads to
post_once(attempt, max_retries, outcome) ==
    IF outcome.kind = "ok" THEN
        [next |-> "return", value |-> outcome.text, sleep |-> None]
    ELSE IF outcome.kind = "http" THEN
        IF retries_left(attempt, max_retries) /\ should_retry(outcome.status)
        THEN [next |-> "continue", value |-> <<>>, sleep |-> Some(backoff(attempt))]
        ELSE [next |-> "raise",
              value |-> <<"API error ", IntStr(outcome.status), ": ">>
                        \o (IF outcome.text # <<>> THEN outcome.text ELSE outcome.str),
              sleep |-> None]
    ELSE
        IF retries_left(attempt, max_retries)
        THEN [next |-> "continue", value |-> <<>>, sleep |-> Some(backoff(attempt))]
        ELSE [next |-> "raise", value |-> <<"Request failed: ">> \o outcome.str,
              sleep |-> None]

\* what the server and the network do to one post
Outcomes ==
    { Response(200, <<"{}">>) }
    \cup { HTTPStatusError(s, <<"detail">>) :
             s \in {408, 429, 500, 502, 503, 504, 400, 404, 501} }
    \cup { HTTPStatusError(401, <<>>), RequestError(<<"timed out">>) }

RTInit ==
    /\ rt_pc = "idle"
    /\ rt_max_retries = 0
    /\ rt_attempt = 0
    /\ rt_log = <<>>
    /\ rt_result = None

\* the call: the client is opened and the loop entered with attempt = 0
PostJsonWithRetries ==
    /\ rt_pc = "idle"
    /\ \E max_retries \in 0..MaxRetriesArg : rt_max_retries' = max_retries
    /\ rt_pc' = "post"
    /\ UNCHANGED <<rt_attempt, rt_log, rt_result>>

\* await client.post(...), raise_for_status() and the except clauses
Attempt ==
    /\ rt_pc = "post"
    /\ \E outcome \in Outcomes :
          LET r == post_once(rt_attempt, rt_max_retries, outcome)
          IN  /\ rt_log' = Append(rt_log, [outcome |-> outcome, sleep |-> r.sleep])
              /\ rt_pc' = CASE r.next = "return" -> "returned"
                            [] r.next = "raise" -> "raised"
                            [] OTHER -> "sleep"
              /\ rt_result' = IF r.next = "continue" THEN None
                              ELSE Some([kind |-> r.next, value |-> Some(r.value)])
    /\ UNCHANGED <<rt_max_retries, rt_attempt>>

\* asyncio.sleep is over and "continue" takes the next value of the range;
\* a range that has none ends the loop and the function returns None
Wake ==
    /\ rt_pc = "sleep"
    /\ rt_attempt' = rt_attempt + 1
    /\ IF rt_attempt + 1 < rt_max_retries + 1
       THEN rt_pc' = "post" /\ rt_result' = rt_result
       ELSE rt_pc' = "returned" /\ rt_result' = Some([kind |-> "return", value |-> None])
    /\ UNCHANGED <<rt_max_retries, rt_log>>

earlyVars == <<mbVars, planVars, fvVars, pxVars>>

\* every component before this one, untouched
EarlyIdle == MBIdle /\ PlanIdle /\ FVIdle /\ PXIdle

RTCall == PostJsonWithRetries /\ UNCHANGED <<earlyVars, svVars, cpVars>>
RTAttempt == Attempt /\ UNCHANGED <<earlyVars, svVars, cpVars>>
RTWake == Wake /\ UNCHANGED <<earlyVars, svVars, cpVars>>

InitRT == RTInit /\ EarlyIdle /\ SVIdle /\ CPIdle
NextRT == RTCall \/ RTAttempt \/ RTWake
SpecRetry == InitRT /\ [][NextRT]_vars

\* the event loop resumes the coroutine when a post has an outcome (the
\* client's timeout bounds the wait) and when a sleep is over
SpecRetryFair == SpecRetry /\ WF_vars(RTAttempt) /\ WF_vars(RTWake)

(* Properties of the retry loop *)

RTDone == rt_pc \in {"returned", "raised"}
RTLast == rt_log[Len(rt_log)].outcome
Transient(outcome) ==
    \/ outcome.kind = "request"
    \/ outcome.kind = "http" /\ outcome.status \in {408, 429, 500, 502, 503, 504}

\* C24: an attempt is followed by a backoff or by another attempt only when
\* it failed with a status of {408, 429, 500, 502, 503, 504} or with a request
\* error; an HTTP error of any other status is the last attempt, is followed
\* by no backoff, and ends the call with an error.
C24_RetryOnlyTransient ==
    \A i \in 1..Len(rt_log) :
        LET outcome == rt_log[i].outcome IN
            /\ (i < Len(rt_log) \/ rt_log[i].sleep # None) => Transient(outcome)
            /\ (outcome.kind = "http" /\ ~Transient(outcome)) =>
                  /\ i = Len(rt_log)
                  /\ rt_log[i].sleep = None
                  /\ rt_pc = "raised"
                  /\ rt_result # None
                  /\ Val(rt_result).kind = "raise"

\* a 503 retried after the first backoff, then a 404 that ends the call
\* although a retry was left
C24_Witness ==
    /\ rt_pc = "raised"
    /\ rt_max_retries = DefaultMaxRetries
    /\ Len(rt_log) = 2
    /\ rt_log[1].outcome.status = 503
    /\ rt_log[1].sleep = Some(BackoffCentis)
    /\ rt_log[2].outcome.status = 404
    /\ rt_log[2].sleep = None

\* C25: a call makes at most max_retries + 1 attempts (3 by default) and
\* ends: with the body of its first successful attempt, which is its last
\* attempt, or with one error raised by a failure that is not retried or
\* that used up the attempts.
C25_EndsWithinAttempts ==
    /\ [](/\ Len(rt_log) <= rt_max_retries + 1
          /\ rt_max_retries = DefaultMaxRetries => Len(rt_log) <= 3
          /\ \A i \in 1..Len(rt_log) :
                rt_log[i].outcome.kind = "ok" =>
                    /\ i = Len(rt_log)
                    /\ rt_pc = "returned"
                    /\ rt_result = Some([kind |-> "return",
                                         value |-> Some(rt_log[i].outcome.text)])
          /\ RTDone =>
                /\ rt_log # <<>>
                /\ rt_result # None
                /\ \/ RTLast.kind = "ok"
                   \/ /\ rt_pc = "raised"
                      /\ Val(rt_result).kind = "raise"
                      /\ ~Transient(RTLast) \/ Len(rt_log) = rt_max_retries + 1)
    /\ (rt_pc = "post") ~> RTDone

\* the default call after two transient failures and a third that uses up
\* the attempts
C25_Witness ==
    /\ rt_pc = "raised"
    /\ rt_max_retries = DefaultMaxRetries
    /\ Len(rt_log) = 3
    /\ Transient(RTLast)
    /\ rt_log[2].sleep = Some(2 * BackoffCentis)

-----------------------------------------------------------------------------
(* services/spec_service.py: get_all_specs and save_spec                   *)
(*                                                                         *)
(* The custom-spec file is a name in a directory: sv_path is the inode the *)
(* name specs.json refers to and sv_tmp the inode of specs.json.tmp (0: no *)
(* such name).  sv_inodes[n] is the content of inode n, None for a file    *)
(* json.load cannot read (an empty one) and Some(list) for a JSON list;    *)
(* sv_flock[n] is the worker holding flock on inode n, or 0.  A worker is  *)
(* a thread running one call at a time; sv_proc[w] is its process (0: the  *)
(* worker does not exist).  Each process has its own _custom_cache_lock    *)
(* (sv_tlock[p], the holder or 0) and its own _custom_cache (sv_cache[p]). *)
(* sv_clock is time.time() in seconds.  sv_saved lists the save_spec calls *)
(* that have returned, sv_calls counts the calls made.                     *)

\* most calls made in one run
MaxCalls == 3
\* the last instant of the clock
MaxClock == 300
\* _CACHE_TTL_SECONDS
CACHE_TTL_SECONDS == 300

Workers == {1, 2}

\* schemas/specs.py: the fields of Spec without a default, and those with one
RequiredKeys == {"id", "platform", "placement", "width", "height", "orientation", "media_type"}
OptionalKeys == {"notes", "max_duration_seconds", "min_duration_seconds",
                 "file_size_limit_kb", "aspect_ratio", "audio_guidance"}
SpecKeys == RequiredKeys \cup OptionalKeys

\* Spec(**item) succeeds: every field without a default is given
ValidItem(item) == RequiredKeys \subseteq DOMAIN item

\* Spec(**item): defaults filled in, keys that are no fields ignored; a Spec
\* and its model_dump() are the same function of the field names
SpecOf(item) == [k \in SpecKeys |-> IF k \in DOMAIN item THEN item[k] ELSE None]

\* json.load of a file, "except Exception: raw = []" (save_spec), and
\* _read_json(path, []) of get_all_specs for a file that exists
LoadRaw(content) == IF content = None THEN <<>> ELSE Val(content)

\* lines 159-163: the specs of the items that validate, in order
CustomSpecs(raw) ==
    LET ok == SelectSeq(raw, ValidItem) IN [i \in 1..Len(ok) |-> SpecOf(ok[i])]

\* str.upper() of the texts of a platform and a placement
SpecUpperTok(t) ==
    CASE t = "Meta"  -> "META"
      [] t = "Story" -> "STORY"
      [] t = "Ad"    -> "AD"
      [] OTHER       -> UpperTok(t)

\* line 187
BaseId(spec_data) ==
    Replace([i \in 1..Len(spec_data.platform \o <<"_">> \o spec_data.placement) |->
                SpecUpperTok((spec_data.platform \o <<"_">> \o spec_data.placement)[i])],
            " ", "_")

\* an id search that stops at the base id
BaseIdTaken(base, new_id, suffix, existing_ids) == base

\* lines 190-193: the while loop, entered with new_id and suffix
RECURSIVE FreeId(_, _, _, _)
FreeId(base, new_id, suffix, existing_ids) ==
    IF new_id \in existing_ids
    THEN FreeId(base, base \o <<"_">> \o IntStr(suffix), suffix + 1, existing_ids)
    ELSE new_id

\* lines 184-193
NewId(spec_data, specs) ==
    IF StrTruthy(spec_data.id) THEN Val(spec_data.id)
    ELSE FreeId(BaseId(spec_data), BaseId(spec_data), 1,
                { specs[i].id : i \in 1..Len(specs) })

\* line 195: Spec(id=new_id, **spec_data.model_dump(exclude={"id"}))
NewSpec(new_id, spec_data) ==
    [k \in SpecKeys |-> IF k = "id" THEN new_id ELSE spec_data[k]]

\* a payload of the new spec alone
PayloadOfNewOnly(specs, new_spec) == <<new_spec>>

\* lines 196-198: specs.append(new_spec); [s.model_dump() for s in specs]
Payload(specs, new_spec) == Append(specs, new_spec)

\* a cache left as it was
CacheKept(cache, payload, now) == cache

\* lines 204-205
CacheSaved(cache, payload, now) == [data |-> Some(payload), loaded_at |-> now]

\* line 152: the cached list is used
CacheHit(cache, now) ==
    cache.data # None /\ now - cache.loaded_at < CACHE_TTL_SECONDS

(* Inputs of the spec service *)

StoryAd == <<"Story", " ", "Ad">>

\* a SpecCreate
SpecData(id, notes) ==
    [id |-> id, platform |-> <<"Meta">>, placement |-> StoryAd,
     width |-> 1080, height |-> 1920, orientation |-> <<"9:16">>,
     media_type |-> <<"video">>, notes |-> notes,
     max_duration_seconds |-> None, min_duration_seconds |-> None,
     file_size_limit_kb |-> None, aspect_ratio |-> None, audio_guidance |-> None]

\* without an id, with the empty string as id, and with an id of the
\* caller's own that has the shape of a generated one
SpecInputs ==
    { SpecData(None, None),
      SpecData(Some(<<>>), Some(<<"v2">>)),
      SpecData(Some(<<"META", "_", "STORY", "_", "AD", "_", "1">>), None) }

\* an entry written by hand: no optional keys, a key that is no field
LegacyItem ==
    [k \in RequiredKeys \cup {"owner"} |->
        CASE k = "id" -> <<"META", "_", "STORY", "_", "AD">>
          [] k = "platform" -> <<"Meta">>
          [] k = "placement" -> StoryAd
          [] k = "width" -> 1080
          [] k = "height" -> 1920
          [] k = "orientation" -> <<"9:16">>
          [] k = "media_type" -> <<"image">>
          [] OTHER -> <<"studio">>]

\* an entry that does not validate as a Spec: no width
InvalidItem == [k \in (RequiredKeys \ {"width"}) |-> LegacyItem[k]]

\* what the data directory holds before the first call: no specs.json, an
\* empty file, "[]", a list with a valid entry, a list with an invalid one
InitialFiles ==
    { <<>>, <<None>>, <<Some(<<>>)>>, <<Some(<<LegacyItem>>)>>, <<Some(<<InvalidItem>>)>> }

IdleWorker ==
    [pc |-> "idle", op |-> "none", arg |-> None, now |-> 0, handle |-> 0,
     before |-> None, new_spec |-> None, payload |-> <<>>, result |-> None,
     known |-> {}]

EmptyCache == [data |-> None, loaded_at |-> 0]

SVInit(procs) ==
    /\ sv_inodes \in InitialFiles
    /\ sv_path = Len(sv_inodes)
    /\ sv_tmp = 0
    /\ sv_flock = [n \in 1..Len(sv_inodes) |-> 0]
    /\ sv_tlock = <<0, 0>>
    /\ sv_cache = <<EmptyCache, EmptyCache>>
    /\ sv_clock = 0
    /\ sv_w = <<IdleWorker, IdleWorker>>
    /\ sv_proc \in procs
    /\ sv_saved = <<>>
    /\ sv_calls = 0

(* The steps of the calls *)

\* _read_json(_custom_specs_path(), [])
FileRaw == IF sv_path = 0 THEN <<>> ELSE LoadRaw(sv_inodes[sv_path])

\* the specs saved by returned calls of process p
SavedBy(p) == { sv_saved[i].spec : i \in { j \in 1..Len(sv_saved) : sv_saved[j].proc = p } }

CanCall(w) ==
    /\ sv_proc[w] # 0
    /\ sv_w[w].pc \in {"idle", "done"}
    /\ sv_calls < MaxCalls

\* time passes: the time to live of the cache (calls with no tick between
\* them fall within it)
Tick ==
    /\ sv_clock + CACHE_TTL_SECONDS <= MaxClock
    /\ sv_clock' = sv_clock + CACHE_TTL_SECONDS
    /\ UNCHANGED <<sv_path, sv_tmp, sv_inodes, sv_flock, sv_tlock, sv_cache,
                   sv_w, sv_proc, sv_saved, sv_calls>>

\* get_all_specs, lines 147-150: the platform specs are flattened and the
\* clock is read, before the lock is asked for
GetStart(w) ==
    /\ CanCall(w)
    /\ sv_w' = [sv_w EXCEPT ![w] = [IdleWorker EXCEPT !.pc = "g_lock", !.op = "get",
                                       !.now = sv_clock,
                                       !.known = SavedBy(sv_proc[w])]]
    /\ sv_calls' = sv_calls + 1
    /\ UNCHANGED <<sv_path, sv_tmp, sv_inodes, sv_flock, sv_tlock, sv_cache,
                   sv_clock, sv_proc, sv_saved>>

\* lines 151-165: the block under _custom_cache_lock, then the loop over raw
\* (the custom specs of the returned list; the platform specs before them
\* come from another file)
GetFinish(w) ==
    LET p == sv_proc[w]
        hit == CacheHit(sv_cache[p], sv_w[w].now)
        raw == IF hit THEN Val(sv_cache[p].data) ELSE FileRaw
    IN  /\ sv_w[w].pc = "g_lock"
        /\ sv_tlock[p] = 0
        /\ sv_cache' = IF hit THEN sv_cache
                       ELSE [sv_cache EXCEPT ![p] = [data |-> Some(raw),
                                                     loaded_at |-> sv_w[w].now]]
        /\ sv_w' = [sv_w EXCEPT ![w].pc = "done",
                                ![w].result = Some([kind |-> "return",
                                                    value |-> CustomSpecs(raw)])]
        /\ UNCHANGED <<sv_path, sv_tmp, sv_inodes, sv_flock, sv_tlock, sv_clock,
                       sv_proc, sv_saved, sv_calls>>

\* save_spec is called
SaveStart(w) ==
    /\ CanCall(w)
    /\ \E spec_data \in SpecInputs :
          sv_w' = [sv_w EXCEPT ![w] = [IdleWorker EXCEPT !.pc = "s_lock", !.op = "save",
                                          !.arg = Some(spec_data)]]
    /\ sv_calls' = sv_calls + 1
    /\ UNCHANGED <<sv_path, sv_tmp, sv_inodes, sv_flock, sv_tlock, sv_cache,
                   sv_clock, sv_proc, sv_saved>>

\* line 173: with _custom_cache_lock
SaveAcquire(w) ==
    LET p == sv_proc[w] IN
        /\ sv_w[w].pc = "s_lock"
        /\ sv_tlock[p] = 0
        /\ sv_tlock' = [sv_tlock EXCEPT ![p] = w]
        /\ sv_w' = [sv_w EXCEPT ![w].pc = "s_open",
                                ![w].before = Some([specs |-> CustomSpecs(FileRaw),
                                                    raw |-> FileRaw,
                                                    exists |-> sv_path # 0,
                                                    cache |-> sv_cache[p]])]
        /\ UNCHANGED <<sv_path, sv_tmp, sv_inodes, sv_flock, sv_cache, sv_clock,
                       sv_proc, sv_saved, sv_calls>>

\* line 26: open(path, "a+") makes an empty file when there is none
SaveOpen(w) ==
    /\ sv_w[w].pc = "s_open"
    /\ IF sv_path = 0
       THEN /\ sv_inodes' = Append(sv_inodes, None)
            /\ sv_flock' = Append(sv_flock, 0)
            /\ sv_path' = Len(sv_inodes) + 1
       ELSE UNCHANGED <<sv_inodes, sv_flock, sv_path>>
    /\ sv_w' = [sv_w EXCEPT ![w].pc = "s_flock", ![w].handle = sv_path']
    /\ UNCHANGED <<sv_tmp, sv_tlock, sv_cache, sv_clock, sv_proc, sv_saved, sv_calls>>

\* line 28: fcntl.flock(handle, LOCK_EX) waits while another open file
\* description holds the lock of the same inode
SaveFlock(w) ==
    /\ sv_w[w].pc = "s_flock"
    /\ sv_flock[sv_w[w].handle] = 0
    /\ sv_flock' = [sv_flock EXCEPT ![sv_w[w].handle] = w]
    /\ sv_w' = [sv_w EXCEPT ![w].pc = "s_read"]
    /\ UNCHANGED <<sv_path, sv_tmp, sv_inodes, sv_tlock, sv_cache, sv_clock,
                   sv_proc, sv_saved, sv_calls>>

\* lines 175-198: the handle is read and the payload made; an entry that is
\* no Spec raises, and the two with-blocks give up their locks
SaveRead(w) ==
    LET p == sv_proc[w]
        raw == LoadRaw(sv_inodes[sv_w[w].handle])
        specs == CustomSpecs(raw)
        spec_data == Val(sv_w[w].arg)
        new_spec == NewSpec(NewId(spec_data, specs), spec_data)
    IN  /\ sv_w[w].pc = "s_read"
        /\ IF \E i \in 1..Len(raw) : ~ValidItem(raw[i])
           THEN /\ sv_w' = [sv_w EXCEPT ![w].pc = "done",
                                        ![w].result = Some([kind |-> "raise",
                                                            value |-> <<>>])]
                /\ sv_flock' = [sv_flock EXCEPT ![sv_w[w].handle] = 0]
                /\ sv_tlock' = [sv_tlock EXCEPT ![p] = 0]
           ELSE /\ sv_w' = [sv_w EXCEPT ![w].pc = "s_write",
                                        ![w].new_spec = Some(new_spec),
                                        ![w].payload = Payload(specs, new_spec)]
                /\ UNCHANGED <<sv_flock, sv_tlock>>
        /\ UNCHANGED <<sv_path, sv_tmp, sv_inodes, sv_cache, sv_clock, sv_proc,
                       sv_saved, sv_calls>>

\* lines 199-201: open(tmp_path, "w") makes the file or empties the one of
\* that name, json.dump writes the payload
SaveWriteTmp(w) ==
    /\ sv_w[w].pc = "s_write"
    /\ IF sv_tmp = 0
       THEN /\ sv_inodes' = Append(sv_inodes, Some(sv_w[w].payload))
            /\ sv_flock' = Append(sv_flock, 0)
            /\ sv_tmp' = Len(sv_inodes) + 1
       ELSE /\ sv_inodes' = [sv_inodes EXCEPT ![sv_tmp] = Some(sv_w[w].payload)]
            /\ UNCHANGED <<sv_flock, sv_tmp>>
    /\ sv_w' = [sv_w EXCEPT ![w].pc = "s_replace"]
    /\ UNCHANGED <<sv_path, sv_tlock, sv_cache, sv_clock, sv_proc, sv_saved, sv_calls>>

\* line 202: os.replace(tmp_path, path) gives the name specs.json to the
\* inode of the temporary file; with no temporary file of that name left it
\* raises FileNotFoundError
SaveReplace(w) ==
    LET p == sv_proc[w] IN
        /\ sv_w[w].pc = "s_replace"
        /\ IF sv_tmp = 0
           THEN /\ sv_w' = [sv_w EXCEPT ![w].pc = "done",
                                        ![w].result = Some([kind |-> "raise",
                                                            value |-> <<>>])]
                /\ sv_flock' = [sv_flock EXCEPT ![sv_w[w].handle] = 0]
                /\ sv_tlock' = [sv_tlock EXCEPT ![p] = 0]
                /\ UNCHANGED <<sv_path, sv_tmp>>
           ELSE /\ sv_path' = sv_tmp
                /\ sv_tmp' = 0
                /\ sv_w' = [sv_w EXCEPT ![w].pc = "s_cache"]
                /\ UNCHANGED <<sv_flock, sv_tlock>>
        /\ UNCHANGED <<sv_inodes, sv_cache, sv_clock, sv_proc, sv_saved, sv_calls>>

\* lines 204-207: the cache takes the payload, the call returns the new
\* spec, and the with-blocks unlock the file and release the lock
SaveFinish(w) ==
    LET p == sv_proc[w] IN
        /\ sv_w[w].pc = "s_cache"
        /\ sv_cache' = [sv_cache EXCEPT ![p] = CacheSaved(sv_cache[p], sv_w[w].payload,
                                                          sv_clock)]
        /\ sv_flock' = [sv_flock EXCEPT ![sv_w[w].handle] = 0]
        /\ sv_tlock' = [sv_tlock EXCEPT ![p] = 0]
        /\ sv_w' = [sv_w EXCEPT ![w].pc = "done",
                                ![w].result = Some([kind |-> "return",
                                                    value |-> <<Val(sv_w[w].new_spec)>>])]
        /\ sv_saved' = Append(sv_saved, [proc |-> p, spec |-> Val(sv_w[w].new_spec)])
        /\ UNCHANGED <<sv_path, sv_tmp, sv_inodes, sv_clock, sv_proc, sv_calls>>

laterVars == <<earlyVars, rtVars, cpVars>>

SvTick == Tick /\ UNCHANGED laterVars
SvGetStart == \E w \in Workers : GetStart(w) /\ UNCHANGED laterVars
SvGetFinish == \E w \in Workers : GetFinish(w) /\ UNCHANGED laterVars
SvSaveStart == \E w \in Workers : SaveStart(w) /\ UNCHANGED laterVars
SvSaveAcquire == \E w \in Workers : SaveAcquire(w) /\ UNCHANGED laterVars
SvSaveOpen == \E w \in Workers : SaveOpen(w) /\ UNCHANGED laterVars
SvSaveFlock == \E w \in Workers : SaveFlock(w) /\ UNCHANGED laterVars
SvSaveRead == \E w \in Workers : SaveRead(w) /\ UNCHANGED laterVars
SvSaveWriteTmp == \E w \in Workers : SaveWriteTmp(w) /\ UNCHANGED laterVars
SvSaveReplace == \E w \in Workers : SaveReplace(w) /\ UNCHANGED laterVars
SvSaveFinish == \E w \in Workers : SaveFinish(w) /\ UNCHANGED laterVars

NextSvc ==
    \/ SvTick \/ SvGetStart \/ SvGetFinish \/ SvSaveStart \/ SvSaveAcquire
    \/ SvSaveOpen \/ SvSaveFlock \/ SvSaveRead \/ SvSaveWriteTmp \/ SvSaveReplace
    \/ SvSaveFinish

\* one process, with one thread or with two
InitSvc == SVInit({<<1, 0>>, <<1, 1>>}) /\ EarlyIdle /\ RTIdle /\ CPIdle
SpecSvc == InitSvc /\ [][NextSvc]_vars

\* two processes with a thread each, sharing the data directory
InitSvcProcs == SVInit({<<1, 2>>}) /\ EarlyIdle /\ RTIdle /\ CPIdle
SpecSvcProcs == InitSvcProcs /\ [][NextSvc]_vars

(* Properties of the spec service *)

\* the custom specs a reader of the file gets
FileSpecs == CustomSpecs(FileRaw)

IdsOf(specs) == { specs[i].id : i \in 1..Len(specs) }

\* "META_STORY_AD" and "META_STORY_AD_k"
MetaStoryAd == <<"META", "_", "STORY", "_", "AD">>
Suffixed(k) == MetaStoryAd \o <<"_">> \o IntStr(k)

\* worker w, in save_spec, goes from one place of the call to another
SaveStep(w, from, to) ==
    /\ sv_w[w].op = "save"
    /\ sv_w[w].pc = from
    /\ sv_w'[w].pc = to

\* C21: save_spec without an id (None or "") for platform Meta, placement
\* Story Ad gives the id META_STORY_AD when no stored custom spec has it, and
\* otherwise META_STORY_AD_k for the least k >= 1 that no stored custom spec
\* has; the id is never one of a stored custom spec.
C21_AutoIdRule ==
    [][ \A w \in Workers :
          (SaveStep(w, "s_read", "s_write") /\ ~StrTruthy(Val(sv_w[w].arg).id)) =>
              LET ids == IdsOf(FileSpecs)
                  id == Val(sv_w'[w].new_spec).id
              IN  /\ id \notin ids
                  /\ IF MetaStoryAd \notin ids THEN id = MetaStoryAd
                     ELSE \E k \in 1..(Cardinality(ids) + 1) :
                            /\ id = Suffixed(k)
                            /\ \A j \in 1..(k - 1) : Suffixed(j) \in ids
      ]_vars

\* the same platform and placement saved twice into an empty store, without
\* an id and with "" as the id
C21_Witness ==
    /\ Len(sv_saved) = 2
    /\ sv_saved[1].spec.id = MetaStoryAd
    /\ sv_saved[1].spec.notes = None
    /\ sv_saved[2].spec.id = Suffixed(1)
    /\ sv_saved[2].spec.notes = Some(<<"v2">>)
    /\ Len(FileSpecs) = 2

\* C22: once the calls of two writers have returned, every spec a save_spec
\* call saved is in the custom-spec file, whatever the interleaving.
C22_NoLostUpdate ==
    (\A w \in Workers : sv_w[w].pc \in {"idle", "done"}) =>
        \A i \in 1..Len(sv_saved) : InSeq(sv_saved[i].spec, FileSpecs)

\* C23: a get_all_specs call returns every spec that a save_spec call of the
\* same process had returned when the get_all_specs call began.
C23_ReadSeesReturnedSaves ==
    \A w \in Workers :
        (sv_w[w].op = "get" /\ sv_w[w].pc = "done") =>
            \A spec \in sv_w[w].known : InSeq(spec, Val(sv_w[w].result).value)

\* a read that began after a save had returned and ended within the time to
\* live of the cache, while the other thread was reading too
C23_Witness ==
    \E w \in Workers, v \in Workers :
        /\ w # v
        /\ sv_w[w].op = "get" /\ sv_w[w].pc = "done"
        /\ sv_w[w].known # {}
        /\ sv_w[w].now - sv_cache[sv_proc[w]].loaded_at < CACHE_TTL_SECONDS
        /\ sv_w[v].op = "get"
        /\ sv_proc[v] = sv_proc[w]

\* C26: a save_spec call that returns leaves, in the file and in the cache,
\* the specs that were stored when it took the lock, in their order, followed
\* by the new spec; a call that raises leaves the file and the cache as they
\* were.
C26_AppendOnly ==
    [][ \A w \in Workers :
          /\ SaveStep(w, "s_cache", "done") =>
                LET before == Val(sv_w[w].before)
                    new_spec == Val(sv_w[w].new_spec)
                IN  /\ FileSpecs' = Append(before.specs, new_spec)
                    /\ sv_cache'[sv_proc[w]].data # None
                    /\ CustomSpecs(Val(sv_cache'[sv_proc[w]].data))
                          = Append(before.specs, new_spec)
                    /\ sv_w'[w].result = Some([kind |-> "return", value |-> <<new_spec>>])
          /\ (sv_w[w].op = "save" /\ sv_w[w].pc # "done" /\ sv_w'[w].pc = "done"
                /\ Val(sv_w'[w].result).kind = "raise") =>
                LET before == Val(sv_w[w].before)
                IN  /\ FileRaw' = before.raw
                    /\ (sv_path' # 0) = before.exists
                    /\ sv_cache'[sv_proc[w]] = before.cache
      ]_vars

\* a save that returned after it found a spec written by hand in the file,
\* which it wrote back with every field of a Spec and no other key
C26_Witness ==
    \E w \in Workers :
        /\ sv_w[w].op = "save" /\ sv_w[w].pc = "done"
        /\ Val(sv_w[w].result).kind = "return"
        /\ Val(sv_w[w].before).raw = <<LegacyItem>>
        /\ Len(FileSpecs) = 2
        /\ FileRaw[1] # LegacyItem

\* C28: the specs of the custom-spec file have pairwise distinct ids.
C28_DistinctIds ==
    \A i \in 1..Len(FileSpecs), j \in 1..Len(FileSpecs) :
        i # j => FileSpecs[i].id # FileSpecs[j].id

-----------------------------------------------------------------------------
(* Concurrent requests to the plan generator                                *)
(*                                                                         *)
(* The routes of api/production_routes.py are coroutines that call the     *)
(* service functions without awaiting anything, so on one event loop a     *)
(* request runs from start to end; here the calls are interleaved          *)
(* statement by statement, as threads would run them, which includes the   *)
(* runs of the event loop.  cp_gen[g] is a generate_production_plan call:  *)
(* its place, its environment ids, the loop position, the batch and the    *)
(* assets it made so far.  cp_upd[u] is an update_asset_status call.  The  *)
(* stores are batches and assets, the ids come from uuid.                  *)

Generators == {1, 2}
Updaters == {1, 2}

\* the platform_environments of the strategy rows of the two requests
ConcEnvLists ==
    { <<"NO_SUCH_ENV", "DISPLAY_MPU">>, <<"DISPLAY_MPU", "META_STORY">> }

\* an assignment that adds an entry even when the key has one
DictAppend(store, key, value) == Append(store, value)

\* _BATCHES[key] = value / _ASSETS[key] = value: the entry of the key is
\* replaced where it is, a new key goes to the end
DictSet(store, key, value) ==
    IF \E i \in 1..Len(store) : store[i].id = key
    THEN [i \in 1..Len(store) |-> IF store[i].id = key THEN value ELSE store[i]]
    ELSE Append(store, value)

IdleGen ==
    [pc |-> "idle", env_ids |-> <<>>, idx |-> 0, batch |-> None, made |-> <<>>,
     overlapped |-> FALSE]

IdleUpd ==
    [pc |-> "idle", asset_id |-> 0, status |-> <<>>, during |-> FALSE, result |-> None]

CPInit ==
    /\ batches = <<>>
    /\ assets = <<>>
    /\ uuid = 0
    /\ plans = <<>>
    /\ last = [op |-> "none"]
    /\ cp_gen = <<IdleGen, IdleGen>>
    /\ cp_upd = <<IdleUpd, IdleUpd>>

\* some generate_production_plan call is between its first and last statement
Generating == \E g \in Generators : cp_gen[g].pc = "assets"

\* lines 39-56: the batch is made and stored
GenBatch(g) ==
    \E env_ids \in ConcEnvLists :
        LET batch == NewBatch(uuid + 1, <<"campaign-1">>, StrategyRow(env_ids),
                              TheConcept, None)
        IN  /\ cp_gen[g].pc = "idle"
            /\ batches' = DictSet(batches, batch.id, batch)
            /\ uuid' = uuid + 1
            /\ cp_gen' = [cp_gen EXCEPT ![g] = [pc |-> "assets", env_ids |-> env_ids,
                                                idx |-> 1, batch |-> Some(batch),
                                                made |-> <<>>,
                                                overlapped |-> Generating]]
            /\ UNCHANGED <<assets, plans, last, cp_upd>>

\* lines 60-91: one pass of the loop over env_ids
GenAsset(g) ==
    LET me == cp_gen[g]
        spec == get_spec_by_id(me.env_ids[me.idx])
        asset == NewAsset(uuid + 1, Val(me.batch).id, Val(spec),
                          StrategyRow(me.env_ids), TheConcept, None, None)
    IN  /\ me.pc = "assets"
        /\ me.idx <= Len(me.env_ids)
        /\ IF spec = None
           THEN /\ cp_gen' = [cp_gen EXCEPT ![g].idx = me.idx + 1]
                /\ UNCHANGED <<assets, uuid>>
           ELSE /\ assets' = DictSet(assets, asset.id, asset)
                /\ uuid' = uuid + 1
                /\ cp_gen' = [cp_gen EXCEPT ![g].idx = me.idx + 1,
                                            ![g].made = Append(me.made, asset)]
        /\ UNCHANGED <<batches, plans, last, cp_upd>>

\* line 93
GenReturn(g) ==
    /\ cp_gen[g].pc = "assets"
    /\ cp_gen[g].idx > Len(cp_gen[g].env_ids)
    /\ cp_gen' = [cp_gen EXCEPT ![g].pc = "done"]
    /\ UNCHANGED <<batches, assets, uuid, plans, last, cp_upd>>

\* lines 112-114: the lookup, and None for an id that is no asset's
UpdGet(u) ==
    \E asset_id \in 0..uuid, status \in Statuses :
        /\ cp_upd[u].pc = "idle"
        /\ cp_upd' = [cp_upd EXCEPT ![u] =
                        [pc |-> IF StoreGet(assets, asset_id) = None THEN "done"
                                ELSE "write",
                         asset_id |-> asset_id, status |-> status,
                         during |-> Generating, result |-> None]]
        /\ UNCHANGED <<batches, assets, uuid, plans, last, cp_gen>>

\* line 115: asset.status = status, on the object the store holds
UpdWrite(u) ==
    /\ cp_upd[u].pc = "write"
    /\ assets' = StatusWritten(assets, Val(StoreGet(assets, cp_upd[u].asset_id)),
                               cp_upd[u].status)
    /\ cp_upd' = [cp_upd EXCEPT ![u].pc = "store"]
    /\ UNCHANGED <<batches, uuid, plans, last, cp_gen>>

\* lines 116-117: the object is assigned to its key again and returned
UpdStore(u) ==
    LET asset == Val(StoreGet(assets, cp_upd[u].asset_id)) IN
        /\ cp_upd[u].pc = "store"
        /\ assets' = DictSet(assets, cp_upd[u].asset_id, asset)
        /\ cp_upd' = [cp_upd EXCEPT ![u].pc = "done", ![u].result = Some(asset.id)]
        /\ UNCHANGED <<batches, uuid, plans, last, cp_gen>>

otherVars == <<mbVars, fvVars, pxVars, rtVars, svVars>>

CpGenBatch == \E g \in Generators : GenBatch(g) /\ UNCHANGED otherVars
CpGenAsset == \E g \in Generators : GenAsset(g) /\ UNCHANGED otherVars
CpGenReturn == \E g \in Generators : GenReturn(g) /\ UNCHANGED otherVars
CpUpdGet == \E u \in Updaters : UpdGet(u) /\ UNCHANGED otherVars
CpUpdWrite == \E u \in Updaters : UpdWrite(u) /\ UNCHANGED otherVars
CpUpdStore == \E u \in Updaters : UpdStore(u) /\ UNCHANGED otherVars

InitPlanConc == CPInit /\ MBIdle /\ FVIdle /\ PXIdle /\ RTIdle /\ SVIdle
NextPlanConc ==
    \/ CpGenBatch \/ CpGenAsset \/ CpGenReturn
    \/ CpUpdGet \/ CpUpdWrite \/ CpUpdStore
SpecPlanConc == InitPlanConc /\ [][NextPlanConc]_vars

(* Properties of the concurrent requests *)

\* every call that was made has returned, and both plans were asked for
AllComplete ==
    /\ \A g \in Generators : cp_gen[g].pc = "done"
    /\ \A u \in Updaters : cp_upd[u].pc \in {"idle", "done"}

\* the statuses that returned update_asset_status calls wrote to the asset
WrittenTo(asset_id) ==
    { cp_upd[u].status : u \in { v \in Updaters : /\ cp_upd[v].pc = "done"
                                                   /\ cp_upd[v].result = Some(asset_id) } }

\* C30: when two generate_production_plan calls and the update_asset_status
\* calls that ran with them have returned, both batches are stored, every
\* asset a call made is stored as it was made, with the batch_id of its call,
\* and its status is Todo when no returned update wrote to it and otherwise a
\* status that a returned update wrote to it; the stores hold nothing else.
C30_NothingLost ==
    AllComplete =>
        /\ Len(batches) = 2
        /\ Len(assets) = Len(cp_gen[1].made) + Len(cp_gen[2].made)
        /\ \A g \in Generators :
              /\ InSeq(Val(cp_gen[g].batch), batches)
              /\ \A i \in 1..Len(cp_gen[g].made) :
                    LET made == cp_gen[g].made[i] IN
                        \E k \in 1..Len(assets) :
                            /\ assets[k].id = made.id
                            /\ assets[k].batch_id = Val(cp_gen[g].batch).id
                            /\ [assets[k] EXCEPT !.status = <<"Todo">>] = made
                            /\ IF WrittenTo(made.id) = {}
                               THEN assets[k].status = <<"Todo">>
                               ELSE assets[k].status \in WrittenTo(made.id)

\* two plans made while the other was being made, and two status writes to
\* one asset, begun while a plan was being made
C30_Witness ==
    /\ AllComplete
    /\ cp_gen[1].overlapped \/ cp_gen[2].overlapped
    /\ cp_gen[1].made # <<>>
    /\ cp_gen[2].made # <<>>
    /\ cp_upd[1].during /\ cp_upd[2].during
    /\ cp_upd[1].result # None
    /\ cp_upd[1].result = cp_upd[2].result
    /\ cp_upd[1].status # cp_upd[2].status

=============================================================================
